---- MODULE Spec2Model ----
(***************************************************************************)
(* Penny: the agentic control loop (Agent.run in penny/agent/agent.py and  *)
(* the earlier AgenticController.run in penny/agentic/controller.py), the  *)
(* tool executor it drives, and the message handlers that send its answer  *)
(* to the user.                                                            *)
(*                                                                         *)
(* Python strings are modelled as sequences of tokens (each token a piece  *)
(* of text), so that concatenation, strip() and the substring test         *)
(* `"http" in content` are computed and not assumed.                       *)
(***************************************************************************)
EXTENDS Integers, Sequences, FiniteSets, TLC

\* ------------------------------------------------------------------ bounds
\* Largest max_steps an agent is constructed with.
MaxSteps == 2
\* Largest number of lines the streaming client yields for one reply.
MaxChunks == 2
MaxRows == 3
MaxLimit == 2
MaxIds == 3
MaxInbound == 2
\* Largest number of rows of the task table.
MaxTasks == 2
\* Largest number of agents constructed in the process.
MaxAgents == 3
\* Largest number of memory rows written.
MaxMemories == 3

\* ------------------------------------------------------------ python values
\* chunk_index = None
NoIndex == -1

NoneV == [type |-> "None", text |-> <<>>, urls |-> <<>>, image |-> ""]
StrV(t) == [type |-> "str", text |-> t, urls |-> <<>>, image |-> ""]
SearchResult(t, u, img) == [type |-> "SearchResult", text |-> t, urls |-> u, image |-> img]

\* An optional string (str | None): set = FALSE is None.
NoStr == [set |-> FALSE, msg |-> ""]
SomeStr(m) == [set |-> TRUE, msg |-> m]
\* Python truthiness of a str | None: None and "" are both falsy.
Truthy(s) == s.set /\ s.msg # ""

\* -------------------------------------------------------------- token text
WS == " "
\* Tokens that contain the substring "http": URLs, and plain prose that
\* merely mentions the protocol.
UrlTokens == {"http://a", "http://b", "http://c", "http://m"}
HttpTokens == UrlTokens \cup {"the http verb"}

RECURSIVE LStrip(_)
LStrip(s) == IF s = <<>> THEN <<>>
             ELSE IF Head(s) = WS THEN LStrip(Tail(s)) ELSE s
RECURSIVE RStrip(_)
RStrip(s) == IF s = <<>> THEN <<>>
             ELSE IF s[Len(s)] = WS THEN RStrip(SubSeq(s, 1, Len(s) - 1)) ELSE s
\* The text used as it came, untrimmed.
NoStrip(s) == s
\* str.strip()
Strip(s) == RStrip(LStrip(s))

\* "http" in content
HasHttp(s) == \E i \in 1..Len(s) : s[i] \in HttpTokens
\* the text holds a URL
HasUrl(s) == \E i \in 1..Len(s) : s[i] \in UrlTokens

RECURSIVE JoinNl(_)
\* "\n".join(urls)
JoinNl(u) == IF u = <<>> THEN <<>>
             ELSE IF Len(u) = 1 THEN <<u[1]>>
             ELSE <<u[1], "\n">> \o JoinNl(Tail(u))

\* ------------------------------------------------------------ fixed strings
APOLOGY_MODEL == <<"Sorry, I encountered an error communicating with the model.">>
APOLOGY_EMPTY == <<"Sorry, the model generated an empty response.">>
APOLOGY_STEPS == <<"Sorry, I couldn't complete that request within the allowed steps.">>
APOLOGY_NO_RESPONSE == <<"Sorry, I couldn't generate a response.">>
APOLOGY_STREAM == <<"Sorry, I encountered an error generating a response.">>
ALREADY_CALLED == <<"Tool already called. DO NOT search again. Write your response NOW.">>
SEARCH_DIRECTIVE == <<"\n\nDO NOT search again. Write your response NOW using these results.">>
SYSTEM_PROMPT == "persona"
NOW == "now"
PROMPT == <<"find the weather">>

Apologies == {APOLOGY_MODEL, APOLOGY_EMPTY, APOLOGY_STEPS, APOLOGY_NO_RESPONSE, APOLOGY_STREAM}

\* ------------------------------------------------------------------- inputs
Impls == {"Agent", "AgenticController"}
Handlers == {"penny", "discord"}

\* Tool names the model may request; "nope" is not in the registry.
ToolNames == {"search", "fetch", "nope"}
Registered == {"search", "fetch"}
\* What the model asks for in one response: one call of any name, or two
\* calls of registered tools (the same one twice, or two different ones in
\* either order).
ToolCallLists ==
    {<<t>> : t \in ToolNames}
    \cup {<<"search", t>> : t \in Registered}
    \cup {<<"fetch", "search">>}

Return(v) == [kind |-> "return", value |-> v, msg |-> ""]
Raise(m) == [kind |-> "raise", value |-> NoneV, msg |-> m]
\* No tool of that name: nothing is executed.
Absent == [kind |-> "absent", value |-> NoneV, msg |-> ""]
\* What Tool.execute(**arguments) of a registered tool may do: return a
\* SearchResult (with or without source URLs and image), return a plain
\* string, return None, or raise (with a message, or with none as
\* `raise TimeoutError()`).
ToolBehaviour(name) ==
    IF name \notin Registered THEN {Absent}
    ELSE IF name = "search"
    THEN {Return(SearchResult("s-text", <<"http://a", "http://b">>, "img")),
          Raise("boom")}
    ELSE {Return(SearchResult("f-text", <<"http://c">>, "")),
          Return(StrV("plain")),
          Return(NoneV),
          Raise("")}

\* Texts of the exceptions raised inside the program.
EXC_INFERENCE == "exc: connection refused"
EXC_STORE == "exc: database is locked"
EXC_SEND == "exc: channel send failed"
EXC_STREAM == "exc: stream broke"
ExceptionTexts == {EXC_INFERENCE, EXC_STORE, EXC_SEND, EXC_STREAM, "boom"}

\* Final texts the model may produce (content of a response without tool calls).
FinalContents == {<<>>, <<WS>>, <<"txt">>, <<WS, "txt", WS>>,
                  <<"txt", "http://m">>, <<"the http verb">>}
\* Lines the streaming client may yield.
StreamLines == {<<"line">>}

\* History handed to the loop: records of the thread / conversation.
Rec(d, c, i) == [direction |-> d, content |-> c, chunk_index |-> i]
Histories == {<<>>,
              <<Rec("incoming", <<"q1">>, NoIndex), Rec("outgoing", <<"a1">>, 0),
                Rec("incoming", <<"q2">>, NoIndex),
                Rec("outgoing", <<"a2", "\n", "b2">>, 1)>>}

VARIABLES
    impl,          \* which loop runs: Agent.run or AgenticController.run
    max_steps,     \* self.max_steps
    history,       \* the history argument of run
    pc,            \* position of the run: "idle", "chat", "tools", "done", "raised"
    messages,      \* the running transcript
    step,          \* iterations of `for step in range(max_steps)` started
    pending,       \* tool calls of the current response not yet handled
    done_calls,    \* tool calls of the current response already handled
    called_tools,  \* called_tools
    source_urls,   \* source_urls
    attachments,   \* attachments
    answer,        \* the answer run returned
    chat_calls,    \* number of times the model was invoked
    tool_steps,    \* number of responses that requested tool calls
    requests,      \* the message list of every model call, in order
    exec_log,      \* calls the ToolExecutor received, in order, each with the
                   \* tool-call step it belongs to, the number of calls of that
                   \* step handled before it and the transcript length then
    results,       \* what the executor returned, in order: the tool's behaviour,
                   \* the ToolResult, and where its tool message went
    inflight,      \* the call the executor is working on, <<>> when none
    ending,        \* how the run ended: "none", "final", "error", "steps"
    last_content   \* content of the response without tool calls, as received

runVars == <<impl, max_steps, history, pc, messages, step, pending, done_calls,
             called_tools, source_urls, attachments, answer, chat_calls,
             tool_steps, requests, exec_log, results, inflight, ending,
             last_content>>

VARIABLES
    handler,       \* which handler serves the message
    hpc,           \* position of the handler
    sent,          \* texts sent to the user on the channel, in order
    typing,        \* typing events sent, in order
    logged,        \* texts of the exceptions the handler logged
    chunk_count    \* chunk_count of _stream_and_send_response

handlerVars == <<handler, hpc, sent, typing, logged, chunk_count>>

\* The message table of memory/database.py and one call of
\* get_conversation_history on it.
VARIABLES
    table,         \* the rows of the message table, in timestamp order
    hist_sender,   \* the sender argument of the last get_conversation_history
    hist_limit,    \* its limit argument
    turns,         \* its local list `turns` when its loop had ended
    returned,      \* what it returned
    hist_fresh,    \* that call was the last operation on the table
    db_errors      \* texts of the exceptions log_message logged

storeVars == <<table, hist_sender, hist_limit, turns, returned, hist_fresh,
               db_errors>>

\* The message log with thread linkage that PennyAgent.handle_message
\* writes, its thread walk, and the handler tasks working on it.
VARIABLES
    log,           \* the records of the log, each with its store-assigned id
    chain_id,      \* the id argument of the last thread walk
    chain_limit,   \* its limit argument
    chain,         \* what it returned
    chain_done,    \* a thread walk was made
    tasks,         \* per handler task: position and locals of handle_message
    inbound        \* number of inbound messages dispatched so far

threadVars == <<log, chain_id, chain_limit, chain, chain_done, tasks, inbound>>

\* The tasks of DiscordAgent.handle_message that stream replies.
VARIABLES
    streams,       \* per handler task: position and chunk_count
    arrived        \* number of inbound messages dispatched so far

streamVars == <<streams, arrived>>

\* The background scheduler task, its policies and the summaries it writes.
VARIABLES
    config,        \* threshold of the IdleSchedule, min_idle and max_idle
    policy,        \* per registered pair: the state of its Schedule policy
    idle_seconds,  \* ticks since the last inbound message
    sched_pc,      \* "sleep" between ticks, "executing" inside agent.execute()
    current,       \* the pair whose agent is executing, "" when none is
    work,          \* the records the executing summarize agent has picked up
    summary,       \* record id -> the summary field of the record
    answering,     \* ids of incoming records whose reply is still being made
    received,      \* number of inbound messages so far
    tick_calls,    \* not stored: the calls the scheduler made in this tick
    last_call,     \* not stored: per pair, its last should_run call
    fires,         \* not stored: per pair, execute() calls since the last reset
    draws          \* not stored: per pair, targets drawn since the last reset

schedVars == <<config, policy, idle_seconds, sched_pc, current, work, summary,
               answering, received, tick_calls, last_call, fires, draws>>

\* The top-level run of PennyAgent: its listener and its teardown.
VARIABLES
    running,       \* self.running
    lpc,           \* position of listen_for_messages
    run_pc,        \* position of run: "listening", "close_channel",
                   \* "close_client", "done", "failed"
    cancelled,     \* the task of run was cancelled
    close_called,  \* the resources whose close() was called
    closed,        \* the resources whose close() returned
    failures,      \* consecutive failed connections, counted up to MaxFailures
    dispatched,    \* handler tasks created, counted up to MaxInbound
    need_backoff,  \* not stored: a failure was caught and not yet slept on
    observed,      \* not stored: the listener has read the flag as false
    late_start,    \* not stored: a connection attempt or a dispatch was
                   \* started after that
    recvs_after    \* not stored: receives begun since the flag was cleared

listenVars == <<running, lpc, run_pc, cancelled, close_called, closed, failures,
                dispatched, need_backoff, observed, late_start, recvs_after>>

\* The handler tasks the listener dispatches, followed through every call
\* of handle_message that can raise.
VARIABLES
    handling,      \* per handler task: position and what the task has done
    envelopes      \* raw envelopes dispatched so far

dispatchVars == <<handling, envelopes>>

\* Runs of one Agent object, one after the other.
VARIABLES
    earlier_runs   \* not stored: per finished run, the tool names it executed

\* The listener's last receive.
VARIABLES
    last_frame     \* not stored: what the last receive brought and what the
                   \* listener did with it

\* The task table of memory/database.py.
VARIABLES
    task_rows,     \* the rows of the task table, in creation order
    pending_view,  \* what the last get_pending_tasks returned
    task_op        \* not stored: the last call on the table and the rows before it

jobVars == <<task_rows, pending_view, task_op>>

\* The class-level list Agent._instances.
VARIABLES
    instances,     \* Agent._instances
    constructed,   \* number of agents constructed so far
    client_closes, \* per agent: calls of its inference client's close()
    registry_op    \* not stored: the last operation and the list before it

registryVars == <<instances, constructed, client_closes, registry_op>>

\* The memory table of memory/database.py.
VARIABLES
    memories,      \* the rows of the memory table, in creation order
    memory_ids,    \* ids given out so far
    memory_view,   \* what the last get_all_memories returned
    memory_op      \* not stored: the last call and the rows before it

memoryVars == <<memories, memory_ids, memory_view, memory_op>>

\* The tables and lists beside the message stores.
tableVars == <<jobVars, registryVars, memoryVars>>

\* The state outside the agentic loop, the handlers and the message stores.
moreVars == <<dispatchVars, earlier_runs, last_frame, tableVars>>

\* The background tasks and the top-level run.
backVars == <<schedVars, listenVars, moreVars>>

\* The variables the agentic loop and its handlers leave alone.
restVars == <<storeVars, threadVars, streamVars, backVars>>

vars == <<runVars, handlerVars, restVars>>

\* The names of the concurrently running handler tasks.
Tasks == {"t1", "t2"}

\* No record id (parent_id is None).
NoId == 0

\* An empty log, no thread walk made, no handler task running.
ThreadIdle ==
    /\ log = {}
    /\ chain_id = NoId
    /\ chain_limit = 0
    /\ chain = <<>>
    /\ chain_done = FALSE
    /\ tasks = [t \in Tasks |-> [pc |-> "idle", msg |-> 0, incoming_id |-> NoId]]
    /\ inbound = 0

\* The registered (Schedule policy, ScheduledAgent) pairs, in tick order: the
\* summarize agent under an IdleSchedule, the follow-up agent under a
\* TwoPhaseSchedule.
Pairs == <<"summarize", "followup">>
PairNames == {"summarize", "followup"}

\* No target drawn.
NoTarget == -1

\* The state of a policy after construction and after reset().
FreshPolicy == [latched |-> FALSE, complete |-> FALSE, target |-> NoTarget]

\* No should_run call made yet in this idle period.
NoCall == [made |-> FALSE, idle |-> 0, result |-> FALSE,
           before |-> FreshPolicy, after |-> FreshPolicy]

\* The scheduler before its first tick, no message received.
SchedIdle ==
    /\ config = [threshold |-> 1, min_idle |-> 1, max_idle |-> 1]
    /\ policy = [p \in PairNames |-> FreshPolicy]
    /\ idle_seconds = 0
    /\ sched_pc = "sleep"
    /\ current = ""
    /\ work = {}
    /\ summary = {}
    /\ answering = {}
    /\ received = 0
    /\ tick_calls = <<>>
    /\ last_call = [p \in PairNames |-> NoCall]
    /\ fires = [p \in PairNames |-> 0]
    /\ draws = [p \in PairNames |-> 0]

\* PennyAgent after construction (self.running = True), run not entered.
ListenIdle ==
    /\ running = TRUE
    /\ lpc = "start"
    /\ run_pc = "listening"
    /\ cancelled = FALSE
    /\ close_called = {}
    /\ closed = {}
    /\ failures = 0
    /\ dispatched = 0
    /\ need_backoff = FALSE
    /\ observed = FALSE
    /\ late_start = FALSE
    /\ recvs_after = 0

\* A handler task slot before a task is created on it.
FreshHandling == [pc |-> "idle", nothing |-> FALSE, writes |-> 0, typed |-> <<>>,
                  sends |-> 0, failed |-> "", caught |-> ""]

\* No envelope dispatched.
DispatchIdle ==
    /\ handling = [t \in Tasks |-> FreshHandling]
    /\ envelopes = 0

\* No call made on the task table.
NoTaskOp == [op |-> "none", id |-> 0, arg |-> "", before |-> <<>>]
JobIdle ==
    /\ task_rows = <<>>
    /\ pending_view = <<>>
    /\ task_op = NoTaskOp

\* No agent constructed.
NoRegistryOp == [op |-> "none", agent |-> 0, before |-> <<>>]
RegistryIdle ==
    /\ instances = <<>>
    /\ constructed = 0
    /\ client_closes = <<>>
    /\ registry_op = NoRegistryOp

\* No memory stored.
NoMemoryOp == [op |-> "none", arg |-> "", ok |-> TRUE, raised |-> FALSE,
               before |-> <<>>]
MemoryIdle ==
    /\ memories = <<>>
    /\ memory_ids = 0
    /\ memory_view = <<>>
    /\ memory_op = NoMemoryOp

\* No frame received.
NoFrame == [kind |-> "none", kept |-> TRUE, backoff |-> FALSE, tasks |-> 0]

MoreIdle ==
    /\ DispatchIdle
    /\ earlier_runs = <<>>
    /\ last_frame = NoFrame
    /\ JobIdle
    /\ RegistryIdle
    /\ MemoryIdle

\* No background task running, no listener started.
BackIdle == SchedIdle /\ ListenIdle /\ MoreIdle

\* No streaming handler task running.
StreamIdle ==
    /\ streams = [t \in Tasks |-> [pc |-> "idle", chunk_count |-> 0]]
    /\ arrived = 0

\* The message table before any row was written or read.
StoreIdle ==
    /\ table = <<>>
    /\ hist_sender = ""
    /\ hist_limit = 0
    /\ turns = <<>>
    /\ returned = <<>>
    /\ hist_fresh = FALSE
    /\ db_errors = {}

\* ----------------------------------------------------------------- messages
Msg(r, c) == [role |-> r, content |-> c, tool_calls |-> <<>>]
AssistantCalls(calls) == [role |-> "assistant", content |-> <<>>, tool_calls |-> calls]

RoleOf(d) == IF d = "incoming" THEN "user" ELSE "assistant"

RECURSIVE AgentHistory(_)
\* Agent._build_messages, lines 84-86: one message per (role, content) pair.
AgentHistory(h) ==
    IF h = <<>> THEN <<>>
    ELSE <<Msg(RoleOf(Head(h).direction), Head(h).content)>> \o AgentHistory(Tail(h))

RECURSIVE ControllerHistory(_)
\* AgenticController._build_messages, lines 49-53: only records whose
\* chunk_index is None or 0 are added.
ControllerHistory(h) ==
    IF h = <<>> THEN <<>>
    ELSE (IF Head(h).chunk_index = NoIndex \/ Head(h).chunk_index = 0
          THEN <<Msg(RoleOf(Head(h).direction), Head(h).content)>>
          ELSE <<>>) \o ControllerHistory(Tail(h))

\* A line of the prompt: the speaker's label and the content.
Part(label, c) == [label |-> label, content |-> c]

RECURSIVE PromptHistory(_)
\* PromptBuilder.build_conversation_history, lines 71-77: every incoming
\* record gives a "User:" line; an outgoing record gives a "Penny:" line
\* only when its chunk_index is None or 0.
PromptHistory(h) ==
    IF h = <<>> THEN <<>>
    ELSE (IF Head(h).direction = "incoming"
          THEN <<Part("User", Head(h).content)>>
          ELSE IF Head(h).chunk_index = NoIndex \/ Head(h).chunk_index = 0
          THEN <<Part("Penny", Head(h).content)>>
          ELSE <<>>) \o PromptHistory(Tail(h))

SystemContent == <<"Current date and time: ", NOW, "\n\n", SYSTEM_PROMPT>>

AgentBuildMessages(prompt, h) ==
    <<Msg("system", SystemContent)>> \o AgentHistory(h) \o <<Msg("user", prompt)>>

ControllerBuildMessages(h, current_message) ==
    ControllerHistory(h) \o <<Msg("user", current_message)>>

BuildMessages(i, prompt, h) ==
    IF i = "Agent" THEN AgentBuildMessages(prompt, h)
    ELSE ControllerBuildMessages(h, prompt)

\* ------------------------------------------------------------ tool executor
ToolCall(name) == [tool |-> name]
ToolResult(name, r, e) == [tool |-> name, result |-> r, error |-> e]

UNKNOWN_TOOL == "unknown tool"

\* ToolExecutor.execute(call) when the tool, if there is one, behaves as o:
\* the registry lookup, then the tool's own execution with every exception
\* converted to an error carrying the exception's message.
Execute(call, o) ==
    IF call.tool \notin Registered
    THEN ToolResult(call.tool, NoneV, SomeStr(UNKNOWN_TOOL))
    ELSE IF o.kind = "raise"
         THEN ToolResult(call.tool, NoneV, SomeStr(o.msg))
         ELSE ToolResult(call.tool, o.value, NoStr)

\* str(x)
PyStr(v) == IF v.type = "None" THEN <<"None">>
            ELSE IF v.type = "str" THEN <<v.text>>
            ELSE <<"SearchResult(...)">>

ErrorPrefix == "Error: "

\* Agent.run, lines 153-166.
AgentFormat(tr) ==
    IF Truthy(tr.error) THEN <<ErrorPrefix, tr.error.msg>>
    ELSE IF tr.result.type = "SearchResult"
         THEN <<tr.result.text>>
              \o (IF tr.result.urls # <<>>
                  THEN <<"\n\nSources:\n">> \o JoinNl(tr.result.urls) ELSE <<>>)
              \o SEARCH_DIRECTIVE
         ELSE PyStr(tr.result)

\* AgenticController.run, lines 114-117.
ControllerFormat(tr) ==
    IF Truthy(tr.error) THEN <<ErrorPrefix, tr.error.msg>> ELSE PyStr(tr.result)

FormatResult(i, tr) == IF i = "Agent" THEN AgentFormat(tr) ELSE ControllerFormat(tr)

\* Agent.run, lines 157-158.
CollectedUrls(tr) ==
    IF ~Truthy(tr.error) /\ tr.result.type = "SearchResult" THEN tr.result.urls ELSE <<>>

\* Agent.run, lines 160-161.
CollectedImage(tr) ==
    IF ~Truthy(tr.error) /\ tr.result.type = "SearchResult" /\ tr.result.image # ""
    THEN <<tr.result.image>> ELSE <<>>

\* Agent.run, line 137: a repeat of a tool name is skipped.  The earlier
\* controller has no such test.
IsRepeat(i, name, called) == i = "Agent" /\ name \in called

RECURSIVE Reverse(_)
\* The calls visited last to first.
Reverse(calls) == IF calls = <<>> THEN <<>>
                  ELSE Append(Reverse(Tail(calls)), Head(calls))
\* The order in which the for loop of lines 133 (Agent) and 100 (controller)
\* visits the calls of a response: the order the model requested them in.
CallOrder(calls) == calls

\* ------------------------------------------------------------- final answer
\* Agent.run, lines 176-191.
AgentAnswer(content, urls) ==
    LET c == Strip(content) IN
    IF c = <<>> THEN APOLOGY_EMPTY
    ELSE IF urls # <<>> /\ ~HasHttp(c) THEN c \o <<"\n\n", urls[1]>>
    ELSE c

\* AgenticController.run, lines 128-135.
ControllerAnswer(content) ==
    LET c == Strip(content) IN IF c = <<>> THEN APOLOGY_EMPTY ELSE c

FinalAnswer(i, content, urls) ==
    IF i = "Agent" THEN AgentAnswer(content, urls) ELSE ControllerAnswer(content)

\* The exception's own text as the answer.
ExceptionTextAnswer(e) == <<e>>
\* The answer of a run whose inference call raised e (Agent.run lines
\* 120-124, controller 86-88).
InferenceErrorAnswer(e) == APOLOGY_MODEL

\* The loop going on to its next step after a failed inference call.
RetryAfterInferenceError == "chat"
\* Where the run goes when the inference call raised: it returns.
AfterInferenceError == "done"

\* The loop allowing one iteration too many.
StepsLeftOffByOne(s, m) == s <= m
\* for step in range(self.max_steps)
StepsLeft(s, m) == s < m

\* A model call that submits only the messages built before the loop.
RequestWithoutToolMessages(m) == SelectSeq(m, LAMBDA x : x.role # "tool")
\* The message list a model call submits: the running transcript.
Request(m) == m

\* --------------------------------------------------------------------- Init
Init ==
    /\ BackIdle
    /\ handler \in Handlers
    /\ impl \in (IF handler = "penny" THEN Impls ELSE {"Agent"})
    /\ max_steps \in (IF handler = "penny" THEN 1..MaxSteps ELSE {1})
    /\ history \in (IF handler = "penny" THEN Histories ELSE {<<>>})
    /\ pc = "idle"
    /\ messages = <<>>
    /\ step = 0
    /\ pending = <<>>
    /\ done_calls = <<>>
    /\ called_tools = {}
    /\ source_urls = <<>>
    /\ attachments = <<>>
    /\ answer = <<>>
    /\ chat_calls = 0
    /\ tool_steps = 0
    /\ requests = <<>>
    /\ exec_log = <<>>
    /\ results = <<>>
    /\ inflight = <<>>
    /\ ending = "none"
    /\ last_content = <<>>
    /\ hpc = "recv"
    /\ sent = <<>>
    /\ typing = <<>>
    /\ logged = {}
    /\ chunk_count = 0
    /\ StoreIdle
    /\ ThreadIdle
    /\ StreamIdle

\* ------------------------------------------------------------ the run loop
\* A set of called tools kept from one run to the next.
CalledToolsKept(prev) == prev
\* Agent.run, line 113: called_tools is a new empty set in every run.
FreshCalledTools(prev) == {}

\* run(): the message list is built and the locals are initialised
\* (Agent.run lines 107-113, AgenticController.run lines 73-76).
RunStart ==
    /\ hpc = "run" /\ pc = "idle"
    /\ messages' = BuildMessages(impl, PROMPT, history)
    /\ called_tools' = FreshCalledTools(called_tools)
    /\ source_urls' = <<>>
    /\ attachments' = <<>>
    /\ pc' = "chat"
    /\ UNCHANGED <<impl, max_steps, history, step, pending, done_calls, answer,
                   chat_calls, tool_steps, requests, exec_log, results, inflight,
                   ending, last_content>>
    /\ UNCHANGED <<handlerVars, restVars>>

\* The inference call raises (Agent.run lines 118-124, controller 84-88).
ChatError ==
    /\ pc = "chat" /\ StepsLeft(step, max_steps)
    /\ step' = step + 1
    /\ chat_calls' = chat_calls + 1
    /\ requests' = Append(requests, Request(messages))
    /\ logged' = logged \cup {EXC_INFERENCE}
    /\ answer' = InferenceErrorAnswer(EXC_INFERENCE)
    /\ ending' = "error"
    /\ pc' = AfterInferenceError
    /\ UNCHANGED <<impl, max_steps, history, messages, pending, done_calls,
                   called_tools, source_urls, attachments, tool_steps, exec_log,
                   results, inflight, last_content>>
    /\ UNCHANGED <<handler, hpc, sent, typing, chunk_count>>
    /\ UNCHANGED restVars

\* The model answers with tool calls: the assistant message is appended and
\* the for loop over the calls begins (Agent.run 126-133, controller 93-100).
ChatToolCalls ==
    /\ pc = "chat" /\ StepsLeft(step, max_steps)
    /\ \E calls \in ToolCallLists :
        /\ messages' = Append(messages, AssistantCalls(calls))
        /\ pending' = CallOrder(calls)
    /\ step' = step + 1
    /\ chat_calls' = chat_calls + 1
    /\ tool_steps' = tool_steps + 1
    /\ requests' = Append(requests, Request(messages))
    /\ done_calls' = <<>>
    /\ pc' = "tools"
    /\ UNCHANGED <<impl, max_steps, history, called_tools, source_urls,
                   attachments, answer, exec_log, results, inflight, ending,
                   last_content>>
    /\ UNCHANGED <<handlerVars, restVars>>

\* After a call is handled: the next call, or `continue` to the next step.
AfterCall(p) == IF Tail(p) = <<>> THEN "chat" ELSE "tools"

\* A repeated tool name is not executed (Agent.run lines 137-145).
ToolSkip ==
    /\ pc = "tools" /\ inflight = <<>> /\ pending # <<>>
    /\ IsRepeat(impl, Head(pending), called_tools)
    /\ messages' = Append(messages, Msg("tool", ALREADY_CALLED))
    /\ done_calls' = Append(done_calls, Head(pending))
    /\ pending' = Tail(pending)
    /\ pc' = AfterCall(pending)
    /\ UNCHANGED <<impl, max_steps, history, step, called_tools, source_urls,
                   attachments, answer, chat_calls, tool_steps, requests,
                   exec_log, results, inflight, ending, last_content>>
    /\ UNCHANGED <<handlerVars, restVars>>

\* The call is handed to the executor (Agent.run lines 147-151, controller
\* 105-111); the coroutine is suspended until the executor returns.
ToolExecStart ==
    /\ pc = "tools" /\ inflight = <<>> /\ pending # <<>>
    /\ ~IsRepeat(impl, Head(pending), called_tools)
    /\ called_tools' = (IF impl = "Agent" THEN called_tools \cup {Head(pending)}
                        ELSE called_tools)
    /\ inflight' = <<ToolCall(Head(pending))>>
    /\ exec_log' = Append(exec_log, [tool |-> Head(pending), step |-> tool_steps,
                                     handled |-> Len(done_calls),
                                     transcript |-> Len(messages)])
    /\ UNCHANGED <<impl, max_steps, history, pc, messages, step, pending,
                   done_calls, source_urls, attachments, answer, chat_calls,
                   tool_steps, requests, results, ending, last_content>>
    /\ UNCHANGED <<handlerVars, restVars>>

\* The executor returns its ToolResult; it is formatted and appended as a
\* tool-role message (Agent.run lines 153-171, controller 113-122).
ToolExecReturn ==
    /\ pc = "tools" /\ inflight # <<>>
    /\ \E o \in ToolBehaviour(inflight[1].tool) :
        LET tr == Execute(inflight[1], o) IN
        /\ results' = Append(results, [outcome |-> o.kind, msg |-> o.msg,
                                       result |-> tr, at |-> Len(messages) + 1])
        /\ source_urls' = (IF impl = "Agent" THEN source_urls \o CollectedUrls(tr)
                           ELSE source_urls)
        /\ attachments' = (IF impl = "Agent" THEN attachments \o CollectedImage(tr)
                           ELSE attachments)
        /\ messages' = Append(messages, Msg("tool", FormatResult(impl, tr)))
    /\ inflight' = <<>>
    /\ done_calls' = Append(done_calls, Head(pending))
    /\ pending' = Tail(pending)
    /\ pc' = AfterCall(pending)
    /\ UNCHANGED <<impl, max_steps, history, step, called_tools, answer,
                   chat_calls, tool_steps, requests, exec_log, ending,
                   last_content>>
    /\ UNCHANGED <<handlerVars, restVars>>

\* The model answers without tool calls: the final answer (Agent.run lines
\* 175-191, controller 127-135).
ChatFinal ==
    /\ pc = "chat" /\ StepsLeft(step, max_steps)
    /\ \E content \in FinalContents :
        /\ last_content' = content
        /\ answer' = FinalAnswer(impl, content, source_urls)
    /\ step' = step + 1
    /\ chat_calls' = chat_calls + 1
    /\ requests' = Append(requests, Request(messages))
    /\ ending' = "final"
    /\ pc' = "done"
    /\ UNCHANGED <<impl, max_steps, history, messages, pending, done_calls,
                   called_tools, source_urls, attachments, tool_steps, exec_log,
                   results, inflight>>
    /\ UNCHANGED <<handlerVars, restVars>>

\* The for loop ran out of steps (Agent.run lines 193-196, controller 137-139).
Exhausted ==
    /\ pc = "chat" /\ ~StepsLeft(step, max_steps)
    /\ answer' = APOLOGY_STEPS
    /\ ending' = "steps"
    /\ pc' = "done"
    /\ UNCHANGED <<impl, max_steps, history, messages, step, pending, done_calls,
                   called_tools, source_urls, attachments, chat_calls, tool_steps,
                   requests, exec_log, results, inflight, last_content>>
    /\ UNCHANGED <<handlerVars, restVars>>

\* ------------------------------------------------------------ the handlers
\* PennyAgent.handle_message, line 102.
HandlerReply(a) == IF a # <<>> THEN Strip(a) ELSE APOLOGY_NO_RESPONSE

\* What the handler sends when the exception e reaches its except clause
\* (PennyAgent.handle_message lines 108-109: it is logged, nothing is sent).
OnHandlerException(e) == <<>>

\* PennyAgent.handle_message, lines 69-94: extract, log the incoming
\* message, typing indicator on, then the controller runs.
HandleStart ==
    /\ handler = "penny" /\ hpc = "recv"
    /\ \/ /\ hpc' = "end"
          /\ UNCHANGED <<sent, typing, logged>>
       \/ /\ logged' = logged \cup {EXC_STORE}
          /\ sent' = sent \o OnHandlerException(EXC_STORE)
          /\ hpc' = "end"
          /\ UNCHANGED typing
       \/ /\ typing' = Append(typing, TRUE)
          /\ hpc' = "run"
          /\ UNCHANGED <<sent, logged>>
    /\ UNCHANGED <<handler, chunk_count>>
    /\ UNCHANGED <<runVars, restVars>>

\* A handler that ends without touching the typing indicator.
TypingLeftAsIs(ty) == ty
\* The finally clause of handle_message (agent.py lines 105-106,
\* discord_agent.py lines 178-180): the typing indicator is turned off.
TypingOff(ty) == Append(ty, FALSE)

\* PennyAgent.handle_message, lines 102-109: the answer is logged and sent;
\* the typing indicator goes off on every path.
HandleReply ==
    /\ handler = "penny" /\ hpc = "run" /\ pc = "done"
    /\ \/ /\ logged' = logged \cup {EXC_STORE}
          /\ sent' = sent \o OnHandlerException(EXC_STORE)
       \/ /\ logged' = logged \cup {EXC_SEND}
          /\ sent' = sent \o OnHandlerException(EXC_SEND)
       \/ /\ sent' = Append(sent, HandlerReply(answer))
          /\ UNCHANGED logged
    /\ typing' = TypingOff(typing)
    /\ hpc' = "end"
    /\ UNCHANGED <<handler, chunk_count>>
    /\ UNCHANGED <<runVars, restVars>>

\* What _stream_and_send_response sends when streaming raised e (lines 144-148).
OnStreamException(e) == APOLOGY_STREAM

\* DiscordAgent.handle_message, lines 157-169.
DiscordStart ==
    /\ handler = "discord" /\ hpc = "recv"
    /\ \/ /\ hpc' = "end"
          /\ UNCHANGED typing
       \/ /\ typing' = Append(typing, TRUE)
          /\ hpc' = "stream"
    /\ UNCHANGED <<handler, sent, logged, chunk_count>>
    /\ UNCHANGED <<runVars, restVars>>

\* One line of the stream (lines 121-140): typing off, send, log, typing on.
StreamChunk ==
    /\ handler = "discord" /\ hpc = "stream" /\ chunk_count < MaxChunks
    /\ \E line \in StreamLines : sent' = Append(sent, line)
    /\ typing' = typing \o <<FALSE, TRUE>>
    /\ chunk_count' = chunk_count + 1
    /\ UNCHANGED <<handler, hpc, logged>>
    /\ UNCHANGED <<runVars, restVars>>

\* The stream or a send raises (lines 144-148), then the finally of
\* handle_message (lines 178-180).
StreamError ==
    /\ handler = "discord" /\ hpc = "stream"
    /\ logged' = logged \cup {EXC_STREAM}
    /\ sent' = Append(sent, OnStreamException(EXC_STREAM))
    /\ typing' = TypingOff(typing)
    /\ hpc' = "end"
    /\ UNCHANGED <<handler, chunk_count>>
    /\ UNCHANGED <<runVars, restVars>>

\* The stream ends (line 142), then the finally of handle_message.
StreamEnd ==
    /\ handler = "discord" /\ hpc = "stream"
    /\ typing' = TypingOff(typing)
    /\ hpc' = "end"
    /\ UNCHANGED <<handler, sent, logged, chunk_count>>
    /\ UNCHANGED <<runVars, restVars>>

\* --------------------------------------------------------------------- Spec
Next ==
    \/ HandleStart
    \/ RunStart
    \/ ChatError
    \/ ChatToolCalls
    \/ ToolSkip
    \/ ToolExecStart
    \/ ToolExecReturn
    \/ ChatFinal
    \/ Exhausted
    \/ HandleReply
    \/ DiscordStart
    \/ StreamChunk
    \/ StreamError
    \/ StreamEnd

Spec == Init /\ [][Next]_vars

\* ------------------------------------------------- two runs of one Agent
\* The next message is handled by the same Agent object: its handler starts
\* anew and calls run again. What the finished run left in its locals is
\* kept here until the new run assigns them.
RunAgain ==
    /\ hpc = "end" /\ pc = "done" /\ earlier_runs = <<>>
    /\ earlier_runs' = <<{exec_log[i].tool : i \in DOMAIN exec_log}>>
    /\ pc' = "idle"
    /\ messages' = <<>>
    /\ step' = 0
    /\ pending' = <<>>
    /\ done_calls' = <<>>
    /\ answer' = <<>>
    /\ chat_calls' = 0
    /\ tool_steps' = 0
    /\ requests' = <<>>
    /\ exec_log' = <<>>
    /\ results' = <<>>
    /\ inflight' = <<>>
    /\ ending' = "none"
    /\ last_content' = <<>>
    /\ hpc' = "recv"
    /\ sent' = <<>>
    /\ typing' = <<>>
    /\ logged' = {}
    /\ UNCHANGED <<impl, max_steps, history, called_tools, source_urls, attachments>>
    /\ UNCHANGED <<handler, chunk_count>>
    /\ UNCHANGED <<storeVars, threadVars, streamVars, schedVars, listenVars,
                   dispatchVars, last_frame, tableVars>>

\* PennyAgent with an Agent as its controller, no thread history.
RerunInit == Init /\ handler = "penny" /\ impl = "Agent" /\ history = <<>>

RerunNext ==
    \/ HandleStart
    \/ RunStart
    \/ ChatError
    \/ ChatToolCalls
    \/ ToolSkip
    \/ ToolExecStart
    \/ ToolExecReturn
    \/ ChatFinal
    \/ Exhausted
    \/ HandleReply
    \/ RunAgain

RerunSpec == RerunInit /\ [][RerunNext]_vars

\* ======================================================= the message table
\* memory/database.py: the table of messages, log_message and
\* get_conversation_history.
MESSAGE_FETCH_MULTIPLIER == 10

PENNY == "penny"
Users == {"alice", "bob"}

\* The i-th content written to the table.
Text(i) == <<ToString(i)>>

\* A row as the handlers write it (discord_agent.py lines 129-136 and 166):
\* an incoming row is from the user to penny, an outgoing row from penny to
\* the user.
Row(d, u, c, i) ==
    [direction |-> d,
     sender |-> IF d = "incoming" THEN u ELSE PENNY,
     recipient |-> IF d = "incoming" THEN PENNY ELSE u,
     content |-> c,
     chunk_index |-> i]

\* direction, user and chunk_index of the rows written.
Shapes ==
    ({"incoming"} \X {"alice"} \X {NoIndex, 0, 1})
    \cup ({"outgoing"} \X {"alice"} \X {NoIndex, 0, 1, 2})
    \cup ({"incoming"} \X {"bob"} \X {NoIndex})

\* The table that holds one row per shape of f, the i-th with content Text(i).
TableOf(f) == [k \in DOMAIN f |-> Row(f[k][1], f[k][2], Text(k), f[k][3])]

\* A reply streamed in n chunks, after the rows before.
ChunkRun(before, u, n) ==
    before \o [k \in 1..n |-> Row("outgoing", u, Text(Len(before) + k), k - 1)]

\* Tables of up to MaxRows rows of any shape, and two long replies: one of
\* one chunk more than a window of limit 1, one that fills a window of
\* limit 2 after a question.
Tables ==
    UNION {{TableOf(f) : f \in [1..n -> Shapes]} : n \in 0..MaxRows}
    \cup {ChunkRun(<<>>, "alice", MESSAGE_FETCH_MULTIPLIER + 1),
          ChunkRun(<<Row("incoming", "alice", Text(1), NoIndex)>>, "alice",
                   2 * MESSAGE_FETCH_MULTIPLIER)}

\* The filter of the query (lines 60-62).
Between(r, a, b) ==
    \/ r.sender = a /\ r.recipient = b
    \/ r.sender = b /\ r.recipient = a

\* The n last elements of s, all of s when it is not longer.
LastN(s, n) == IF Len(s) > n THEN SubSeq(s, Len(s) - n + 1, Len(s)) ELSE s

\* Lines 60-66: the limit * multiplier most recent rows between the two
\* parties, oldest first.
FetchRows(tbl, a, b, lim) ==
    LastN(SelectSeq(tbl, LAMBDA r : Between(r, a, b)),
          lim * MESSAGE_FETCH_MULTIPLIER)

\* A test of the chunk indices by truthiness, which takes index 0 for None.
ContinuesTruthy(cur, msg) ==
    /\ msg.direction = cur.direction
    /\ msg.chunk_index \notin {NoIndex, 0} /\ cur.chunk_index \notin {NoIndex, 0}
    /\ msg.chunk_index = cur.chunk_index + 1
\* Lines 74-77: msg is the next chunk of the current turn.
Continues(cur, msg) ==
    /\ msg.direction = cur.direction
    /\ msg.chunk_index # NoIndex /\ cur.chunk_index # NoIndex
    /\ msg.chunk_index = cur.chunk_index + 1

\* Lines 79-80.
Stitch(cur, msg) ==
    [cur EXCEPT !.content = @ \o <<"\n">> \o msg.content,
                !.chunk_index = msg.chunk_index]

\* Lines 88-96: the turn is a copy of the row.
NewTurn(msg) == msg

\* Lines 69-100: the loop over the fetched rows; cur is <<>> while
\* current_turn is None and <<current_turn>> afterwards.
RECURSIVE FoldTurns(_, _, _)
FoldTurns(msgs, acc, cur) ==
    IF msgs = <<>> THEN acc \o cur
    ELSE LET msg == Head(msgs) IN
         IF cur # <<>> /\ Continues(cur[1], msg)
         THEN FoldTurns(Tail(msgs), acc, <<Stitch(cur[1], msg)>>)
         ELSE FoldTurns(Tail(msgs), acc \o cur, <<NewTurn(msg)>>)

GroupTurns(msgs) == FoldTurns(msgs, <<>>, <<>>)

\* Line 103: turns[-limit:] if len(turns) > limit else turns.
ReturnTurns(t, lim) ==
    IF Len(t) > lim
    THEN (IF lim = 0 THEN t ELSE SubSeq(t, Len(t) - lim + 1, Len(t)))
    ELSE t

\* A read that writes the content of the last turn into the last row.
StitchedInStore(tbl, t) ==
    IF tbl # <<>> /\ t # <<>>
    THEN [tbl EXCEPT ![Len(tbl)].content = t[Len(t)].content]
    ELSE tbl
\* The table after get_conversation_history built the turns t: the turns
\* are copies and the session adds and commits nothing.
AfterRead(tbl, t) == tbl

\* Lines 127-137: the row is added and committed.
Insert(tbl, r) == Append(tbl, r)

\* Database.get_conversation_history(sender, "penny", limit).
GetConversationHistory ==
    /\ \E u \in Users, lim \in 0..MaxLimit :
          LET t == GroupTurns(FetchRows(table, u, PENNY, lim)) IN
          /\ hist_sender' = u
          /\ hist_limit' = lim
          /\ turns' = t
          /\ returned' = ReturnTurns(t, lim)
          /\ table' = AfterRead(table, t)
    /\ hist_fresh' = TRUE
    /\ UNCHANGED db_errors
    /\ UNCHANGED <<runVars, handlerVars, backVars, threadVars, streamVars>>

\* Database.log_message: the row is committed, or the write fails, the
\* exception is logged (lines 139-140) and no row is written. The locals of
\* the read before it are gone.
LogMessage ==
    /\ Len(table) < MaxRows
    /\ \E sh \in Shapes :
          LET r == Row(sh[1], sh[2], Text(Len(table) + 1), sh[3]) IN
          \/ /\ table' = Insert(table, r)
             /\ UNCHANGED db_errors
          \/ /\ db_errors' = db_errors \cup {EXC_STORE}
             /\ UNCHANGED table
    /\ hist_sender' = ""
    /\ hist_limit' = 0
    /\ turns' = <<>>
    /\ returned' = <<>>
    /\ hist_fresh' = FALSE
    /\ UNCHANGED <<runVars, handlerVars, backVars, threadVars, streamVars>>

\* No message is being handled and no loop runs.
LoopIdle ==
    /\ handler = "discord"
    /\ impl = "Agent"
    /\ max_steps = 1
    /\ history = <<>>
    /\ pc = "idle"
    /\ messages = <<>>
    /\ step = 0
    /\ pending = <<>>
    /\ done_calls = <<>>
    /\ called_tools = {}
    /\ source_urls = <<>>
    /\ attachments = <<>>
    /\ answer = <<>>
    /\ chat_calls = 0
    /\ tool_steps = 0
    /\ requests = <<>>
    /\ exec_log = <<>>
    /\ results = <<>>
    /\ inflight = <<>>
    /\ ending = "none"
    /\ last_content = <<>>
    /\ hpc = "end"
    /\ sent = <<>>
    /\ typing = <<>>
    /\ logged = {}
    /\ chunk_count = 0

StoreInit ==
    /\ LoopIdle
    /\ BackIdle
    /\ ThreadIdle
    /\ StreamIdle
    /\ table \in Tables
    /\ hist_sender = ""
    /\ hist_limit = 0
    /\ turns = <<>>
    /\ returned = <<>>
    /\ hist_fresh = FALSE
    /\ db_errors = {}

StoreNext ==
    \/ GetConversationHistory
    \/ LogMessage

StoreSpec == StoreInit /\ [][StoreNext]_vars

\* ========================================================= the message log
\* The store PennyAgent.handle_message works on: records with an id and a
\* parent_id (memory/models.py), appended, looked up by content and walked
\* along parent_id.

\* A MessageLog record. msg and quoted are not stored: they name the inbound
\* message whose handling wrote the record (0 when none did) and the text
\* that message quoted.
LogRecord(i, d, snd, c, par, m, q) ==
    [id |-> i, direction |-> d, sender |-> snd, content |-> c,
     parent_id |-> par, msg |-> m, quoted |-> q]

HasRecord(lg, i) == \E r \in lg : r.id = i
RecordWith(lg, i) == CHOOSE r \in lg : r.id = i

\* The walk along parent_id: it ends at a null parent_id, at a missing
\* record, or after n records. Newest first.
RECURSIVE WalkUp(_, _, _)
WalkUp(lg, i, n) ==
    IF n = 0 \/ i = NoId \/ ~HasRecord(lg, i) THEN <<>>
    ELSE <<RecordWith(lg, i)>> \o WalkUp(lg, RecordWith(lg, i).parent_id, n - 1)

\* A walk that is returned as it was made.
NewestFirst(s) == s
\* The walk reversed.
OldestFirst(s) == [k \in 1..Len(s) |-> s[Len(s) + 1 - k]]

\* ancestor_chain(id, limit).
AncestorChain(lg, i, lim) == OldestFirst(WalkUp(lg, i, lim))

\* Fixture graphs: any of the ids 1..MaxIds present, any parent_id but the
\* record's own id, and no cycle.
Ids == 1..MaxIds
FixtureRecord(i, par) ==
    LogRecord(i, IF i % 2 = 1 THEN "incoming" ELSE "outgoing",
              IF i % 2 = 1 THEN "alice" ELSE PENNY, Text(i), par, 0, <<>>)
IsAcyclic(lg) ==
    \A r \in lg : Len(WalkUp(lg, r.id, Cardinality(lg) + 1)) <= Cardinality(lg)
Fixtures ==
    {lg \in {{FixtureRecord(i, par[i]) : i \in present} :
                 par \in [Ids -> {NoId} \cup Ids], present \in SUBSET Ids} :
        /\ \A r \in lg : r.parent_id # r.id
        /\ IsAcyclic(lg)}

\* db.get_thread_history(id) / db._walk_thread(id): one thread walk.
GetThreadHistory ==
    /\ \E i \in Ids, lim \in 0..MaxLimit :
          /\ chain_id' = i
          /\ chain_limit' = lim
          /\ chain' = AncestorChain(log, i, lim)
    /\ chain_done' = TRUE
    /\ UNCHANGED <<log, tasks, inbound>>
    /\ UNCHANGED <<runVars, handlerVars, backVars, storeVars, streamVars>>

ChainInit ==
    /\ LoopIdle
    /\ BackIdle
    /\ StoreIdle
    /\ StreamIdle
    /\ log \in Fixtures
    /\ chain_id = NoId
    /\ chain_limit = 0
    /\ chain = <<>>
    /\ chain_done = FALSE
    /\ tasks = [t \in Tasks |-> [pc |-> "idle", msg |-> 0, incoming_id |-> NoId]]
    /\ inbound = 0

ChainNext == GetThreadHistory

ChainSpec == ChainInit /\ [][ChainNext]_vars

\* ------------------------------------------- concurrent handlers on the log
\* The text of the inbound messages and the answer of the controller.
INBOUND_TEXT == <<"hi">>
ANSWER == <<"answer">>
FOLLOW_UP == <<"follow-up">>
\* quoted_text of an inbound message: none, the text of a reply, a text
\* that no reply has.
QuotedTexts == {<<>>, ANSWER, <<"never said">>}

\* Ids that fall: each one below those given before.
DescendingId(lg) == 0 - (Cardinality(lg) + 1)
\* The id the store assigns to the next record: above every id given before.
NextId(lg) ==
    IF lg = {} THEN 1
    ELSE (CHOOSE r \in lg : \A x \in lg : x.id <= r.id).id + 1

\* append: the record is written.
AppendRecord(lg, r) == lg \cup {r}

\* find_latest_outgoing_by_content(text): the id of the most recent outgoing
\* record with exactly that content, NoId when there is none.
FindLatestOutgoing(lg, text) ==
    LET m == {r \in lg : r.direction = "outgoing" /\ r.content = text} IN
    IF m = {} THEN NoId
    ELSE (CHOOSE r \in m : \A x \in m : x.id <= r.id).id

\* The id of the latest incoming record of the log, whoever wrote it.
LatestIncoming(lg, task) ==
    LET m == {r \in lg : r.direction = "incoming"} IN
    IF m = {} THEN NoId
    ELSE (CHOOSE r \in m : \A x \in m : x.id <= r.id).id
\* PennyAgent.handle_message, line 103: the reply is linked to the local
\* incoming_id of the task.
ReplyParent(lg, task) == task.incoming_id

IdleTask == [pc |-> "idle", msg |-> 0, incoming_id |-> NoId]

\* PennyAgent.handle_message up to its first await (lines 69-94), run as a
\* task of its own per inbound message (line 134): the message is extracted,
\* a quoted reply is resolved to its record, the incoming record is appended.
ReceiveMessage(t) ==
    /\ tasks[t].pc = "idle" /\ inbound < MaxInbound
    /\ inbound' = inbound + 1
    /\ \/ UNCHANGED <<log, tasks>>
       \/ \E q \in QuotedTexts :
             LET par == IF q # <<>> THEN FindLatestOutgoing(log, q) ELSE NoId
                 r == LogRecord(NextId(log), "incoming", "alice", INBOUND_TEXT,
                                par, inbound + 1, q)
             IN  /\ log' = AppendRecord(log, r)
                 /\ tasks' = [tasks EXCEPT ![t] =
                        [pc |-> "run", msg |-> inbound + 1, incoming_id |-> r.id]]
    /\ UNCHANGED <<chain_id, chain_limit, chain, chain_done>>
    /\ UNCHANGED <<runVars, handlerVars, backVars, storeVars, streamVars>>

\* The append of the incoming record fails (line 92): the exception reaches
\* the except clause of the handler (lines 108-109), which ends.
ReceiveFails(t) ==
    /\ tasks[t].pc = "idle" /\ inbound < MaxInbound
    /\ inbound' = inbound + 1
    /\ UNCHANGED <<log, tasks>>
    /\ UNCHANGED <<chain_id, chain_limit, chain, chain_done>>
    /\ UNCHANGED <<runVars, handlerVars, backVars, storeVars, streamVars>>

\* The controller has returned (lines 96-104): the reply is appended with the
\* incoming record as parent and sent, or the append fails and the handler
\* ends in its except clause.
Reply(t) ==
    /\ tasks[t].pc = "run"
    /\ \/ log' = AppendRecord(log,
                    LogRecord(NextId(log), "outgoing", PENNY, ANSWER,
                              ReplyParent(log, tasks[t]), tasks[t].msg, <<>>))
       \/ UNCHANGED log
    /\ tasks' = [tasks EXCEPT ![t] = IdleTask]
    /\ UNCHANGED <<inbound, chain_id, chain_limit, chain, chain_done>>
    /\ UNCHANGED <<runVars, handlerVars, backVars, storeVars, streamVars>>

\* A background agent continues a conversation from a leaf record and
\* writes its message back with the leaf as parent.
BackgroundWrite ==
    /\ Cardinality(log) < 2 * MaxInbound
    /\ \E leaf \in {r \in log : \A x \in log : x.parent_id # r.id} :
          log' = AppendRecord(log,
                    LogRecord(NextId(log), "outgoing", PENNY, FOLLOW_UP,
                              leaf.id, 0, <<>>))
    /\ UNCHANGED <<tasks, inbound, chain_id, chain_limit, chain, chain_done>>
    /\ UNCHANGED <<runVars, handlerVars, backVars, storeVars, streamVars>>

ThreadInit ==
    /\ LoopIdle
    /\ BackIdle
    /\ StoreIdle
    /\ StreamIdle
    /\ ThreadIdle

ThreadNext ==
    \/ \E t \in Tasks : ReceiveMessage(t)
    \/ \E t \in Tasks : ReceiveFails(t)
    \/ \E t \in Tasks : Reply(t)
    \/ BackgroundWrite

ThreadSpec == ThreadInit /\ [][ThreadNext]_vars

\* ------------------------------------- concurrent handlers that stream
\* DiscordAgent.handle_message, one task per inbound message of one user,
\* writing to the message table of memory/database.py.
STREAM_USER == "alice"

IdleStream == [pc |-> "idle", chunk_count |-> 0]

\* What log_message leaves in the table: the row, or nothing when the write
\* failed and the exception was logged (database.py lines 126-140).
Logged(tbl, d, i, ok) ==
    IF ok THEN Insert(tbl, Row(d, STREAM_USER, Text(Len(tbl) + 1), i)) ELSE tbl
LogErrors(errs, ok) == IF ok THEN errs ELSE errs \cup {EXC_STORE}

\* handle_message up to its first await (lines 157-169): the message is
\* extracted (None ends the handler) and the incoming row is logged.
TaskStart(t) ==
    /\ streams[t].pc = "idle" /\ arrived < MaxInbound
    /\ arrived' = arrived + 1
    /\ \/ UNCHANGED <<table, db_errors, streams>>
       \/ \E ok \in BOOLEAN :
             /\ table' = Logged(table, "incoming", NoIndex, ok)
             /\ db_errors' = LogErrors(db_errors, ok)
             /\ streams' = [streams EXCEPT ![t] = [pc |-> "stream", chunk_count |-> 0]]
    /\ UNCHANGED <<hist_sender, hist_limit, turns, returned, hist_fresh>>
    /\ UNCHANGED <<runVars, handlerVars, backVars, threadVars>>

\* One line of the stream (lines 121-140): it is sent, then logged with
\* chunk_count as chunk_index, then chunk_count is incremented; the awaits
\* before and after let other tasks run.
TaskChunk(t) ==
    /\ streams[t].pc = "stream" /\ streams[t].chunk_count < MaxChunks
    /\ \E ok \in BOOLEAN :
          /\ table' = Logged(table, "outgoing", streams[t].chunk_count, ok)
          /\ db_errors' = LogErrors(db_errors, ok)
    /\ streams' = [streams EXCEPT ![t].chunk_count = @ + 1]
    /\ UNCHANGED <<arrived, hist_sender, hist_limit, turns, returned, hist_fresh>>
    /\ UNCHANGED <<runVars, handlerVars, backVars, threadVars>>

\* The stream or a send raises (lines 144-148): the apology is sent and
\* logged without a chunk_index.
TaskStreamError(t) ==
    /\ streams[t].pc = "stream"
    /\ \E ok \in BOOLEAN :
          /\ table' = Logged(table, "outgoing", NoIndex, ok)
          /\ db_errors' = LogErrors(db_errors, ok)
    /\ streams' = [streams EXCEPT ![t] = IdleStream]
    /\ UNCHANGED <<arrived, hist_sender, hist_limit, turns, returned, hist_fresh>>
    /\ UNCHANGED <<runVars, handlerVars, backVars, threadVars>>

\* The stream ends (line 142) and the handler returns.
TaskStreamEnd(t) ==
    /\ streams[t].pc = "stream"
    /\ streams' = [streams EXCEPT ![t] = IdleStream]
    /\ UNCHANGED <<arrived, storeVars>>
    /\ UNCHANGED <<runVars, handlerVars, backVars, threadVars>>

StreamInit ==
    /\ LoopIdle
    /\ BackIdle
    /\ StoreIdle
    /\ ThreadIdle
    /\ StreamIdle

StreamNext ==
    \/ \E t \in Tasks : TaskStart(t)
    \/ \E t \in Tasks : TaskChunk(t)
    \/ \E t \in Tasks : TaskStreamError(t)
    \/ \E t \in Tasks : TaskStreamEnd(t)

StreamSpec == StreamInit /\ [][StreamNext]_vars

\* ============================================================ the scheduler
\* The tick-driven evaluator over the registered (Schedule, ScheduledAgent)
\* pairs (scheduler/base.py), its two policies and the summarize agent it
\* runs. Idle time is counted in ticks.

\* The largest idle time that is told apart; every trigger point lies in
\* 1..MaxIdle, and idle time stays at MaxIdle once it is there.
MaxIdle == 3

Configs ==
    {c \in [threshold : 1..MaxIdle, min_idle : 1..MaxIdle, max_idle : 1..MaxIdle] :
        c.min_idle <= c.max_idle}

Least(a, b) == IF a <= b THEN a ELSE b

\* The idle time lies beyond a trigger point.
Passed(idle, point) == idle > point
\* The idle time has reached a trigger point.
Reached(idle, point) == idle >= point

\* IdleSchedule(threshold).should_run(idle_seconds): the policy latches once
\* the idle time has reached the threshold and fires while it has not been
\* marked complete. The possible [state, result] outcomes of the call.
IdleShouldRun(p, cfg, idle) ==
    LET l == p.latched \/ Reached(idle, cfg.threshold) IN
    {[state |-> [p EXCEPT !.latched = l], result |-> l /\ ~p.complete]}

\* Targets up to one tick beyond max_idle.
DrawBeyondMax(cfg) == cfg.min_idle..(cfg.max_idle + 1)
\* The targets a TwoPhaseSchedule can draw.
DrawTargets(cfg) == cfg.min_idle..cfg.max_idle

\* A TwoPhaseSchedule that draws a target at every call from min_idle on.
TwoPhaseRedraws(p, cfg, idle) ==
    IF idle < cfg.min_idle THEN {[state |-> p, result |-> FALSE]}
    ELSE {[state |-> [p EXCEPT !.target = t], result |-> Reached(idle, t)] :
             t \in DrawTargets(cfg)}

\* TwoPhaseSchedule(min_idle, max_idle).should_run(idle_seconds): false
\* below min_idle; from min_idle on a target is drawn if none is held, and the
\* policy fires when the idle time has reached the target.
TwoPhaseShouldRun(p, cfg, idle) ==
    IF idle < cfg.min_idle THEN {[state |-> p, result |-> FALSE]}
    ELSE IF p.target = NoTarget
    THEN {[state |-> [p EXCEPT !.target = t], result |-> Reached(idle, t)] :
             t \in DrawTargets(cfg)}
    ELSE {[state |-> p, result |-> Reached(idle, p.target)]}

\* policy.should_run(idle_seconds) of the pair named n.
ShouldRun(n, p, cfg, idle) ==
    IF n = "summarize" THEN IdleShouldRun(p, cfg, idle)
    ELSE TwoPhaseShouldRun(p, cfg, idle)

\* A reset that leaves the latch and the target in place.
ResetKeepsTrigger(p) == [p EXCEPT !.complete = FALSE]
\* policy.reset(): latched and randomized state is cleared.
Reset(p) == FreshPolicy

\* A completion that is not recorded.
MarkNothing(p) == p
\* policy.mark_complete(): the firing is recorded.
MarkComplete(p) == [p EXCEPT !.complete = TRUE]

\* One call of the scheduler, as it is noted in tick_calls.
Call(o, n, r) == [op |-> o, pair |-> n, result |-> r]

\* The outgoing records that have no summary yet.
Unsummarized(lg, sm) ==
    {r.id : r \in {x \in lg : x.direction = "outgoing"
                                /\ ~\E s \in sm : s.id = x.id}}

\* A scheduler that executes the k-th agent without asking its policy.
ExecuteUnasked(k, st, i) ==
    IF k > Len(Pairs) THEN {[st EXCEPT !.run = ""]}
    ELSE {[st EXCEPT !.run = Pairs[k],
                     !.tick_calls = Append(@, Call("execute", Pairs[k], TRUE)),
                     !.fires[Pairs[k]] = Least(@ + 1, 2)]}

\* The scheduler evaluates the pairs from the k-th on at idle time i, in
\* order, up to the first whose execute() has to wait: the possible outcomes,
\* each with the pair whose agent is executing ("" when none is). The
\* summarize agent that finds no record to summarize makes no inference
\* call and returns false without waiting.
RECURSIVE Evaluate(_, _, _)
Evaluate(k, st, i) ==
    IF k > Len(Pairs) THEN {[st EXCEPT !.run = ""]}
    ELSE
      LET n == Pairs[k] IN
      UNION {
        LET drawn == st.policy[n].target = NoTarget /\ o.state.target # NoTarget
            st2 == [st EXCEPT
                      !.policy[n] = o.state,
                      !.tick_calls = Append(@, Call("should_run", n, o.result)),
                      !.last_call[n] = [made |-> TRUE, idle |-> i,
                                        result |-> o.result,
                                        before |-> st.policy[n],
                                        after |-> o.state],
                      !.draws[n] = IF drawn THEN Least(@ + 1, 2) ELSE @]
            st3 == [st2 EXCEPT
                      !.tick_calls = Append(@, Call("execute", n, TRUE)),
                      !.fires[n] = Least(@ + 1, 2)]
            st4 == [st3 EXCEPT
                      !.policy[n] = MarkComplete(@),
                      !.tick_calls = @ \o <<Call("returned", n, FALSE),
                                            Call("mark_complete", n, TRUE)>>]
        IN  IF ~o.result THEN Evaluate(k + 1, st2, i)
            ELSE IF n = "summarize" /\ Unsummarized(log, summary) = {}
            THEN Evaluate(k + 1, st4, i)
            ELSE {[st3 EXCEPT !.run = n]}
        : o \in ShouldRun(n, st.policy[n], config, i)}

\* The scheduler state after an evaluation: the scheduler waits for the
\* agent that is executing, or the tick is over.
Apply(out) ==
    /\ policy' = out.policy
    /\ tick_calls' = out.tick_calls
    /\ last_call' = out.last_call
    /\ draws' = out.draws
    /\ current' = out.run
    /\ sched_pc' = IF out.run = "" THEN "sleep" ELSE "executing"
    /\ fires' = out.fires
    /\ work' = IF out.run = "summarize" THEN Unsummarized(log, summary) ELSE {}

\* What the model answers to the summarize prompt, as Agent.run returns it.
SUMMARY_TEXT == <<"summary">>
SummarizeAnswers == {SUMMARY_TEXT}

\* SummarizeAgent.summarize(message_id): the empty string for a thread of
\* fewer than two records, else the stripped answer, None without an answer.
Summarize(lg, i, ans) ==
    LET thread == WalkUp(lg, i, Cardinality(lg)) IN
    IF Len(thread) < 2 THEN [set |-> TRUE, text |-> <<>>]
    ELSE IF ans # <<>> THEN [set |-> TRUE, text |-> Strip(ans)]
    ELSE [set |-> FALSE, text |-> <<>>]

\* The summarize agent writes each summary it got into its record.
StoreSummaries(sm, lg, wk, ans) ==
    sm \cup {[id |-> i, text |-> Summarize(lg, i, ans).text] :
                i \in {w \in wk : Summarize(lg, w, ans).set}}

\* One tick of the scheduler: the idle time is computed and the pairs are
\* evaluated up to the first that fires.
Tick ==
    /\ sched_pc = "sleep"
    /\ idle_seconds' = Least(idle_seconds + 1, MaxIdle)
    /\ \E out \in Evaluate(1, [policy |-> policy, tick_calls |-> <<>>,
                               last_call |-> last_call, draws |-> draws,
                               fires |-> fires, run |-> ""],
                            idle_seconds') : Apply(out)
    /\ UNCHANGED <<config, summary, answering, received>>
    /\ UNCHANGED <<runVars, handlerVars, storeVars, threadVars, streamVars,
                   listenVars, moreVars>>

\* agent.execute() returns, with true or false: the summarize agent has
\* written its summaries, the policy is marked complete and the remaining
\* pairs of the tick are evaluated.
ExecuteReturns ==
    /\ sched_pc = "executing"
    /\ \E worked \in (IF current = "summarize" THEN {work # {}} ELSE BOOLEAN),
          ans \in (IF current = "summarize" THEN SummarizeAnswers ELSE {<<>>}) :
          LET k == CHOOSE j \in 1..Len(Pairs) : Pairs[j] = current
              st == [policy |-> [policy EXCEPT ![current] = MarkComplete(@)],
                     tick_calls |-> tick_calls
                                    \o <<Call("returned", current, worked),
                                         Call("mark_complete", current, TRUE)>>,
                     last_call |-> last_call, draws |-> draws,
                     fires |-> fires, run |-> ""]
          IN  /\ summary' = IF current = "summarize"
                            THEN StoreSummaries(summary, log, work, ans)
                            ELSE summary
              /\ \E out \in Evaluate(k + 1, st, idle_seconds) : Apply(out)
    /\ UNCHANGED <<config, idle_seconds, answering, received>>
    /\ UNCHANGED <<runVars, handlerVars, storeVars, threadVars, streamVars,
                   listenVars, moreVars>>

\* An inbound message arrives, at any point of the scheduler: every policy
\* is reset, the idle time starts again from zero, and the handler of the
\* message appends the incoming record. The conversation is one exchange at
\* a time: the next message comes after the reply to the one before it.
MessageArrives ==
    /\ received < MaxInbound /\ answering = {}
    /\ received' = received + 1
    /\ idle_seconds' = 0
    /\ policy' = [p \in PairNames |-> Reset(policy[p])]
    /\ last_call' = [p \in PairNames |-> NoCall]
    /\ fires' = [p \in PairNames |-> 0]
    /\ draws' = [p \in PairNames |-> 0]
    /\ log' = AppendRecord(log, LogRecord(NextId(log), "incoming", "alice",
                                          INBOUND_TEXT, NoId, received + 1, <<>>))
    /\ answering' = answering \cup {NextId(log)}
    /\ UNCHANGED <<config, sched_pc, current, work, summary, tick_calls>>
    /\ UNCHANGED <<chain_id, chain_limit, chain, chain_done, tasks, inbound>>
    /\ UNCHANGED <<runVars, handlerVars, storeVars, streamVars, listenVars, moreVars>>

\* The handler of an inbound message appends its reply, linked to the
\* incoming record.
Answer(i) ==
    /\ i \in answering
    /\ answering' = answering \ {i}
    /\ log' = AppendRecord(log, LogRecord(NextId(log), "outgoing", PENNY, ANSWER,
                                          i, RecordWith(log, i).msg, <<>>))
    /\ UNCHANGED <<config, policy, idle_seconds, sched_pc, current, work,
                   summary, received, tick_calls, last_call, fires, draws>>
    /\ UNCHANGED <<chain_id, chain_limit, chain, chain_done, tasks, inbound>>
    /\ UNCHANGED <<runVars, handlerVars, storeVars, streamVars, listenVars, moreVars>>

SchedInit ==
    /\ LoopIdle
    /\ ListenIdle
    /\ MoreIdle
    /\ StoreIdle
    /\ ThreadIdle
    /\ StreamIdle
    /\ config \in Configs
    /\ policy = [p \in PairNames |-> FreshPolicy]
    /\ idle_seconds = 0
    /\ sched_pc = "sleep"
    /\ current = ""
    /\ work = {}
    /\ summary = {}
    /\ answering = {}
    /\ received = 0
    /\ tick_calls = <<>>
    /\ last_call = [p \in PairNames |-> NoCall]
    /\ fires = [p \in PairNames |-> 0]
    /\ draws = [p \in PairNames |-> 0]

SchedNext ==
    \/ Tick
    \/ ExecuteReturns
    \/ MessageArrives
    \/ \E i \in 1..(2 * MaxInbound) : Answer(i)

SchedSpec == SchedInit /\ [][SchedNext]_vars

\* The scheduler task and the handler tasks are scheduled by the event loop:
\* a tick that is due, a returning execute() and a reply that is ready are
\* taken.
SchedFairSpec ==
    /\ SchedSpec
    /\ WF_vars(Tick)
    /\ WF_vars(ExecuteReturns)
    /\ WF_vars(\E i \in 1..(2 * MaxInbound) : Answer(i))

\* ============================================================= the listener
\* PennyAgent.run (agent.py): listen_for_messages until the running flag is
\* cleared, then shutdown. The listener is followed from one await to the
\* next; the signal handler can run between any two of its steps.

\* The consecutive failures of the connection that are told apart.
MaxFailures == 2

ListenRest == <<runVars, handlerVars, storeVars, threadVars, streamVars, schedVars,
                moreVars>>

\* A loop that does not read the flag.
LoopForever(flag) == TRUE
\* while self.running.
LoopOn(flag) == flag

\* A listener that catches the errors of the transport only.
CaughtTransportOnly(kind) == kind = "websocket"
\* The exceptions the except clauses of the listener catch:
\* websockets.exceptions.WebSocketException and Exception.
CaughtByListener(kind) == kind \in {"websocket", "unexpected"}

\* How websockets.connect ends: connected, a WebSocketException, or another
\* exception (the server refuses the connection).
ConnectOutcomes == {"ok", "websocket", "unexpected"}
\* How one wait_for(websocket.recv(), 30.0) and the handling of what it
\* returned end: the timeout, a message that parses to an envelope, a message
\* that is not JSON, JSON that is no object (envelope.keys() raises), the
\* connection closed.
ReceiveOutcomes == {"timeout", "message", "bad_json", "not_object", "closed"}

\* An exception of the given kind leaves the connection: an except clause
\* of the listener catches it, or it leaves the listener and run goes to its
\* finally clause.
Fail(kind) ==
    IF CaughtByListener(kind)
    THEN /\ lpc' = "caught"
         /\ failures' = Least(failures + 1, MaxFailures)
         /\ need_backoff' = TRUE
         /\ UNCHANGED run_pc
    ELSE /\ lpc' = "raised"
         /\ run_pc' = "close_channel"
         /\ UNCHANGED <<failures, need_backoff>>

\* _signal_handler: SIGINT or SIGTERM clears the flag.
Signal ==
    /\ running
    /\ running' = FALSE
    /\ UNCHANGED <<lpc, run_pc, cancelled, close_called, closed, failures,
                   dispatched, need_backoff, observed, late_start, recvs_after>>
    /\ UNCHANGED ListenRest

\* The task of run is cancelled while the listener waits.
Cancel ==
    /\ run_pc = "listening"
    /\ lpc \in {"connecting", "receiving", "sleeping"}
    /\ lpc' = "raised"
    /\ cancelled' = TRUE
    /\ run_pc' = "close_channel"
    /\ UNCHANGED <<running, close_called, closed, failures, dispatched,
                   need_backoff, observed, late_start, recvs_after>>
    /\ UNCHANGED ListenRest

\* Line 113: the connection url is asked of the channel, outside every try:
\* the loop is entered, or the call raises and the listener ends with no url.
GetConnectionUrl ==
    /\ lpc = "start" /\ run_pc = "listening"
    /\ \/ lpc' = "outer" /\ UNCHANGED run_pc
       \/ lpc' = "no_url" /\ run_pc' = "close_channel"
    /\ UNCHANGED <<running, cancelled, close_called, closed, failures,
                   dispatched, need_backoff, observed, late_start, recvs_after>>
    /\ UNCHANGED ListenRest

\* Line 115: the outer loop reads the flag; it starts a connection attempt
\* or the listener returns and run goes to its finally clause.
OuterCheck ==
    /\ lpc = "outer"
    /\ observed' = (observed \/ ~running)
    /\ IF LoopOn(running)
       THEN /\ lpc' = "connecting"
            /\ late_start' = (late_start \/ observed')
            /\ UNCHANGED run_pc
       ELSE /\ lpc' = "stopped"
            /\ run_pc' = "close_channel"
            /\ UNCHANGED late_start
    /\ UNCHANGED <<running, cancelled, close_called, closed, failures,
                   dispatched, need_backoff, recvs_after>>
    /\ UNCHANGED ListenRest

\* Line 119: websockets.connect returns or raises.
Connect ==
    /\ lpc = "connecting"
    /\ \E o \in ConnectOutcomes :
          IF o = "ok"
          THEN /\ lpc' = "inner"
               /\ failures' = 0
               /\ UNCHANGED <<run_pc, need_backoff>>
          ELSE Fail(o)
    /\ UNCHANGED <<running, cancelled, close_called, closed, dispatched,
                   observed, late_start, recvs_after>>
    /\ UNCHANGED ListenRest

\* Line 122: the receive loop reads the flag; it waits for the next message,
\* or it ends and the connection is left, which closes the socket.
InnerCheck ==
    /\ lpc = "inner"
    /\ observed' = (observed \/ ~running)
    /\ IF LoopOn(running)
       THEN /\ lpc' = "receiving"
            /\ UNCHANGED <<run_pc, failures, need_backoff>>
       ELSE \/ /\ lpc' = "outer"
               /\ UNCHANGED <<run_pc, failures, need_backoff>>
            \/ Fail("websocket")
    /\ UNCHANGED <<running, cancelled, close_called, closed, dispatched,
                   late_start, recvs_after>>
    /\ UNCHANGED ListenRest

\* Lines 124-142: one bounded receive. A message that parses is dispatched
\* onto a task of its own; the timeout and a message that is not JSON go on
\* with the loop; any other exception leaves the connection.
ReceiveStep(o) ==
    CASE o \in {"timeout", "bad_json"} ->
            /\ lpc' = "inner"
            /\ UNCHANGED <<run_pc, failures, need_backoff, dispatched,
                           late_start>>
      [] o = "message" ->
            /\ lpc' = "inner"
            /\ dispatched' = Least(dispatched + 1, MaxInbound)
            /\ late_start' = (late_start \/ observed)
            /\ UNCHANGED <<run_pc, failures, need_backoff>>
      [] o = "not_object" ->
            /\ Fail("unexpected")
            /\ UNCHANGED <<dispatched, late_start>>
      [] o = "closed" ->
            /\ Fail("websocket")
            /\ UNCHANGED <<dispatched, late_start>>

Receive ==
    /\ lpc = "receiving"
    /\ recvs_after' = IF running THEN recvs_after ELSE Least(recvs_after + 1, 2)
    /\ \E o \in ReceiveOutcomes : ReceiveStep(o)
    /\ UNCHANGED <<running, cancelled, close_called, closed, observed>>
    /\ UNCHANGED ListenRest

\* The same receive, with what it brought and what became of it noted:
\* whether the connection is kept, whether a failure was caught, and the
\* handler tasks created (line 134, reached once per parsed envelope).
ReceiveFrame ==
    /\ lpc = "receiving"
    /\ recvs_after' = IF running THEN recvs_after ELSE Least(recvs_after + 1, 2)
    /\ \E o \in ReceiveOutcomes :
          /\ ReceiveStep(o)
          /\ last_frame' = [kind |-> o,
                            kept |-> (lpc' = "inner"),
                            backoff |-> (need_backoff' /\ lpc' = "caught"),
                            tasks |-> IF o = "message" THEN 1 ELSE 0]
    /\ UNCHANGED <<running, cancelled, close_called, closed, observed>>
    /\ UNCHANGED <<runVars, handlerVars, storeVars, threadVars, streamVars,
                   schedVars, dispatchVars, earlier_runs, tableVars>>

\* Lines 146 and 152: the except clause reads the flag and sleeps the
\* backoff when it is set.
BackoffCheck ==
    /\ lpc = "caught"
    /\ observed' = (observed \/ ~running)
    /\ lpc' = IF running THEN "sleeping" ELSE "outer"
    /\ UNCHANGED <<running, run_pc, cancelled, close_called, closed, failures,
                   dispatched, need_backoff, late_start, recvs_after>>
    /\ UNCHANGED ListenRest

\* Lines 148 and 154: asyncio.sleep(5) is over.
Sleep ==
    /\ lpc = "sleeping"
    /\ lpc' = "outer"
    /\ need_backoff' = FALSE
    /\ UNCHANGED <<running, run_pc, cancelled, close_called, closed, failures,
                   dispatched, observed, late_start, recvs_after>>
    /\ UNCHANGED ListenRest

\* shutdown, line 172: channel.close() returns, or it raises and the
\* exception leaves shutdown and run.
CloseChannel ==
    /\ run_pc = "close_channel"
    /\ close_called' = close_called \cup {"channel"}
    /\ \/ closed' = closed \cup {"channel"} /\ run_pc' = "close_client"
       \/ closed' = closed /\ run_pc' = "failed"
    /\ UNCHANGED <<running, lpc, cancelled, failures, dispatched, need_backoff,
                   observed, late_start, recvs_after>>
    /\ UNCHANGED ListenRest

\* shutdown, line 173: ollama_client.close() returns or raises; run returns,
\* or the exception that ended the listener goes on.
CloseClient ==
    /\ run_pc = "close_client"
    /\ close_called' = close_called \cup {"client"}
    /\ \/ /\ closed' = closed \cup {"client"}
          /\ run_pc' = IF lpc \in {"raised", "no_url"} THEN "failed" ELSE "done"
       \/ closed' = closed /\ run_pc' = "failed"
    /\ UNCHANGED <<running, lpc, cancelled, failures, dispatched, need_backoff,
                   observed, late_start, recvs_after>>
    /\ UNCHANGED ListenRest

ListenInit ==
    /\ LoopIdle
    /\ StoreIdle
    /\ ThreadIdle
    /\ StreamIdle
    /\ SchedIdle
    /\ ListenIdle
    /\ MoreIdle

\* The steps of listen_for_messages.
ListenerStep ==
    \/ GetConnectionUrl
    \/ OuterCheck
    \/ Connect
    \/ InnerCheck
    \/ Receive
    \/ BackoffCheck
    \/ Sleep

\* The steps of shutdown.
Teardown ==
    \/ CloseChannel
    \/ CloseClient

ListenNext ==
    \/ ListenerStep
    \/ Teardown
    \/ Signal
    \/ Cancel

ListenSpec == ListenInit /\ [][ListenNext]_vars

\* The listener with its receives noted.
FrameNext ==
    \/ GetConnectionUrl
    \/ OuterCheck
    \/ Connect
    \/ InnerCheck
    \/ ReceiveFrame
    \/ BackoffCheck
    \/ Sleep
    \/ Teardown
    \/ Signal
    \/ Cancel

FrameSpec == ListenInit /\ [][FrameNext]_vars

\* The listener and the teardown are run by the event loop: every await of
\* theirs ends (the connection attempt and the closes return or raise, the
\* receive is bounded by its timeout, the sleep by its length).
ListenFairSpec ==
    /\ ListenSpec
    /\ WF_vars(ListenerStep)
    /\ WF_vars(Teardown)

\* ======================================================== handler failures
\* PennyAgent.handle_message (agent.py lines 67-109) as a task of its own
\* per envelope (line 134), with every call of it that can raise:
\* extract_message, the store writes, send_typing, the controller run and
\* send_message. DiscordAgent.handle_message (discord_agent.py lines 150-183)
\* has the same try / finally / except shape.

\* The calls of the handler that can raise.
Stages == {"extract", "store", "typing", "controller", "send"}

\* An except clause that takes store errors only.
CatchesStoreErrors(stage) == stage = "store"
\* Line 108, `except Exception`: every exception raised by a call of the
\* handler reaches this clause.
Catches(stage) == stage \in Stages

\* The exception raised at the stage leaves the try block of line 69: it is
\* caught and logged and the handler returns, or it leaves the task.
Leave(h, stage) ==
    IF Catches(stage) THEN [h EXCEPT !.pc = "done", !.caught = stage]
    ELSE [h EXCEPT !.pc = "raised"]

\* The rest of the group, untouched by a step of one handler.
HandlingRest == <<runVars, handlerVars, storeVars, threadVars, streamVars,
                  schedVars, listenVars, earlier_runs, last_frame, tableVars>>

\* Line 134: the listener creates a task for the envelope and goes on.
Dispatch(t) ==
    /\ handling[t].pc \in {"idle", "done"} /\ envelopes < MaxInbound
    /\ envelopes' = envelopes + 1
    /\ handling' = [handling EXCEPT ![t] = [FreshHandling EXCEPT !.pc = "start"]]
    /\ UNCHANGED HandlingRest

\* Lines 70-92, up to the first await: extract_message returns None, raises
\* or returns the message; the incoming record is written or the write raises.
Extract(t) ==
    /\ handling[t].pc = "start"
    /\ \/ handling' = [handling EXCEPT ![t] = [@ EXCEPT !.pc = "done", !.nothing = TRUE]]
       \/ handling' = [handling EXCEPT ![t] = Leave(@, "extract")]
       \/ handling' = [handling EXCEPT ![t] = Leave(@, "store")]
       \/ handling' = [handling EXCEPT ![t] = [@ EXCEPT !.pc = "typing_on", !.writes = 1]]
    /\ UNCHANGED <<envelopes, HandlingRest>>

\* Line 94: send_typing(sender, True), before the inner try.
TypingOn(t) ==
    /\ handling[t].pc = "typing_on"
    /\ \/ handling' = [handling EXCEPT ![t] = Leave(@, "typing")]
       \/ handling' = [handling EXCEPT ![t] = [@ EXCEPT !.pc = "run", !.typed = <<TRUE>>]]
    /\ UNCHANGED <<envelopes, HandlingRest>>

\* Lines 96-100: the controller run returns or raises into the finally.
ControllerRun(t) ==
    /\ handling[t].pc = "run"
    /\ \/ handling' = [handling EXCEPT ![t] = [@ EXCEPT !.pc = "reply"]]
       \/ handling' = [handling EXCEPT ![t] = [@ EXCEPT !.pc = "typing_off",
                                                        !.failed = "controller"]]
    /\ UNCHANGED <<envelopes, HandlingRest>>

\* Lines 102-104: the reply is written and sent; either call may raise into
\* the finally.
SendReply(t) ==
    /\ handling[t].pc = "reply"
    /\ \/ handling' = [handling EXCEPT ![t] = [@ EXCEPT !.pc = "typing_off",
                                                        !.failed = "store"]]
       \/ handling' = [handling EXCEPT ![t] = [@ EXCEPT !.pc = "typing_off",
                                                        !.writes = 2, !.failed = "send"]]
       \/ handling' = [handling EXCEPT ![t] = [@ EXCEPT !.pc = "typing_off",
                                                        !.writes = 2, !.sends = 1]]
    /\ UNCHANGED <<envelopes, HandlingRest>>

\* Lines 105-109: the finally sends typing off, or that call raises; then
\* the pending exception, if any, goes on to the except clause.
TypingOffStep(t) ==
    /\ handling[t].pc = "typing_off"
    /\ \/ handling' = [handling EXCEPT ![t] = Leave(@, "typing")]
       \/ handling' = [handling EXCEPT ![t] =
              IF @.failed = ""
              THEN [@ EXCEPT !.pc = "done", !.typed = TypingOff(@)]
              ELSE Leave([@ EXCEPT !.typed = TypingOff(@)], @.failed)]
    /\ UNCHANGED <<envelopes, HandlingRest>>

DispatchInit ==
    /\ LoopIdle
    /\ StoreIdle
    /\ ThreadIdle
    /\ StreamIdle
    /\ BackIdle

DispatchNext ==
    \/ \E t \in Tasks : Dispatch(t)
    \/ \E t \in Tasks : Extract(t)
    \/ \E t \in Tasks : TypingOn(t)
    \/ \E t \in Tasks : ControllerRun(t)
    \/ \E t \in Tasks : SendReply(t)
    \/ \E t \in Tasks : TypingOffStep(t)

DispatchSpec == DispatchInit /\ [][DispatchNext]_vars

\* ============================================================ the task table
\* memory/database.py, lines 189-263: create_task, get_pending_tasks,
\* update_task_status and complete_task. Each call runs in one session
\* without a suspension point.

\* TaskStatus
Statuses == {"pending", "in_progress", "completed"}
\* Ids the callers name: those of the table and one that no row has.
TaskIds == 1..(MaxTasks + 1)
\* Result texts handed to complete_task.
TaskResults == {"r1", "r2"}

\* Task(content, requester) as create_task commits it (lines 202-205): the
\* store assigns the id; status pending, nothing else set.
NewTask(rows) ==
    [id |-> Len(rows) + 1, status |-> "pending", completed_at |-> FALSE,
     result |-> NoStr]

\* session.get(Task, task_id) found a row.
HasTask(rows, id) == \E k \in DOMAIN rows : rows[k].id = id

\* Lines 238-243: the status is set (started_at, which no other call
\* reads, is left out of the rows).
UpdateStatus(rows, id, status) ==
    [k \in DOMAIN rows |->
        IF rows[k].id = id THEN [rows[k] EXCEPT !.status = status] ELSE rows[k]]

\* Lines 257-262: the status becomes completed, completed_at and result are set.
Complete(rows, id, r) ==
    [k \in DOMAIN rows |->
        IF rows[k].id = id
        THEN [rows[k] EXCEPT !.status = "completed", !.completed_at = TRUE,
                             !.result = SomeStr(r)]
        ELSE rows[k]]

\* Lines 218-224: the rows with status pending, by creation time. The list
\* returned is kept up to the next call that writes.
PendingTasks(rows) == SelectSeq(rows, LAMBDA t : t.status = "pending")

TaskRest == <<runVars, handlerVars, storeVars, threadVars, streamVars, schedVars,
              listenVars, dispatchVars, earlier_runs, last_frame, registryVars,
              memoryVars>>

CreateTask ==
    /\ Len(task_rows) < MaxTasks
    /\ task_rows' = Append(task_rows, NewTask(task_rows))
    /\ task_op' = [op |-> "create", id |-> Len(task_rows) + 1, arg |-> "",
                   before |-> task_rows]
    /\ pending_view' = <<>>
    /\ UNCHANGED TaskRest

GetPendingTasks ==
    /\ pending_view' = PendingTasks(task_rows)
    /\ task_op' = [op |-> "get_pending", id |-> 0, arg |-> "", before |-> task_rows]
    /\ UNCHANGED <<task_rows, TaskRest>>

UpdateTaskStatus ==
    /\ \E id \in TaskIds, status \in Statuses :
          /\ task_rows' = UpdateStatus(task_rows, id, status)
          /\ task_op' = [op |-> "update", id |-> id, arg |-> status,
                         before |-> task_rows]
    /\ pending_view' = <<>>
    /\ UNCHANGED TaskRest

CompleteTask ==
    /\ \E id \in TaskIds, r \in TaskResults :
          /\ task_rows' = Complete(task_rows, id, r)
          /\ task_op' = [op |-> "complete", id |-> id, arg |-> r,
                         before |-> task_rows]
    /\ pending_view' = <<>>
    /\ UNCHANGED TaskRest

TaskInit ==
    /\ LoopIdle
    /\ StoreIdle
    /\ ThreadIdle
    /\ StreamIdle
    /\ BackIdle

TaskNext ==
    \/ CreateTask
    \/ GetPendingTasks
    \/ UpdateTaskStatus
    \/ CompleteTask

TaskSpec == TaskInit /\ [][TaskNext]_vars

\* ========================================================= the agent registry
\* Agent._instances (agent/agent.py line 30), __init__, close and close_all.
\* The inference client's close() (ollama/client.py lines 107-109) only
\* logs: it neither waits nor raises, so close and close_all run without
\* another task in between.

\* list.remove(a) after the test `a in list` (lines 201-202).
Remove(reg, a) == SelectSeq(reg, LAMBDA x : x # a)

\* Agent.close (lines 198-202) on the state st of the registry: the client
\* is closed, then the agent is taken off the list if it is on it.
CloseAgent(st, a) ==
    [instances |-> Remove(st.instances, a),
     closes |-> [st.closes EXCEPT ![a] = Least(@ + 1, 2)]]

\* The for loop of close_all over the agents of todo.
RECURSIVE CloseEach(_, _)
CloseEach(todo, st) ==
    IF todo = <<>> THEN st ELSE CloseEach(Tail(todo), CloseAgent(st, Head(todo)))

\* A for loop over the list itself while close() removes from it: after
\* the i-th agent is closed the loop goes on at position i + 1 of what is left.
RECURSIVE CloseLive(_, _)
CloseLive(i, st) ==
    IF i > Len(st.instances) THEN st
    ELSE CloseLive(i + 1, CloseAgent(st, st.instances[i]))
CloseAllLive(reg, closes) == CloseLive(1, [instances |-> reg, closes |-> closes])

\* Agent.close_all (lines 204-208): the loop runs over a copy of the list.
CloseAll(reg, closes) == CloseEach(reg, [instances |-> reg, closes |-> closes])

RegistryRest == <<runVars, handlerVars, storeVars, threadVars, streamVars,
                  schedVars, listenVars, dispatchVars, earlier_runs, last_frame,
                  jobVars, memoryVars>>

\* Agent.__init__ (lines 49-63): the client is made, the agent appended.
Construct ==
    /\ constructed < MaxAgents
    /\ constructed' = constructed + 1
    /\ instances' = Append(instances, constructed + 1)
    /\ client_closes' = Append(client_closes, 0)
    /\ registry_op' = [op |-> "construct", agent |-> constructed + 1,
                       before |-> instances]
    /\ UNCHANGED RegistryRest

\* agent.close() on any agent constructed so far, closed before or not.
Close ==
    /\ \E a \in 1..constructed :
          LET st == CloseAgent([instances |-> instances, closes |-> client_closes], a) IN
          /\ instances' = st.instances
          /\ client_closes' = st.closes
          /\ registry_op' = [op |-> "close", agent |-> a, before |-> instances]
    /\ UNCHANGED <<constructed, RegistryRest>>

\* Agent.close_all().
CloseAllAgents ==
    /\ LET st == CloseAll(instances, client_closes) IN
          /\ instances' = st.instances
          /\ client_closes' = st.closes
    /\ registry_op' = [op |-> "close_all", agent |-> 0, before |-> instances]
    /\ UNCHANGED <<constructed, RegistryRest>>

RegistryInit ==
    /\ LoopIdle
    /\ StoreIdle
    /\ ThreadIdle
    /\ StreamIdle
    /\ BackIdle

RegistryNext ==
    \/ Construct
    \/ Close
    \/ CloseAllAgents

RegistrySpec == RegistryInit /\ [][RegistryNext]_vars

\* ========================================================== the memory table
\* memory/database.py, lines 142-187: store_memory, get_all_memories and
\* compact_memories. Each call runs in one session without a suspension
\* point; a session that fails before its commit leaves the table as it was.

\* Contents stored and summaries compacted to.
MemoryTexts == {"likes tea", "name is Al", "summary"}

\* A Memory row with the id the store gives it.
MemoryRow(id, c) == [id |-> id, content |-> c]

\* Lines 150-157: the row is added and committed, or the write fails, the
\* exception is logged and the table is as before.
StoreMemory(mem, id, c, ok) == IF ok THEN Append(mem, MemoryRow(id, c)) ELSE mem

\* A compaction that adds the summary without deleting the rows.
CompactKeepsRows(mem, id, text) == Append(mem, MemoryRow(id, text))
\* Lines 179-186: all rows are deleted and the summary row added, in one
\* transaction.
Compact(mem, id, text) == <<MemoryRow(id, text)>>

MemoryRest == <<runVars, handlerVars, storeVars, threadVars, streamVars,
                schedVars, listenVars, dispatchVars, earlier_runs, last_frame,
                jobVars, registryVars>>

\* store_memory(content): it returns whether the write succeeded or not.
StoreMemoryCall ==
    /\ memory_ids < MaxMemories
    /\ \E c \in MemoryTexts, ok \in BOOLEAN :
          /\ memories' = StoreMemory(memories, memory_ids + 1, c, ok)
          /\ memory_ids' = IF ok THEN memory_ids + 1 ELSE memory_ids
          /\ memory_op' = [op |-> "store", arg |-> c, ok |-> ok, raised |-> FALSE,
                           before |-> memories]
    /\ memory_view' = <<>>
    /\ UNCHANGED MemoryRest

\* get_all_memories(), lines 167-169: the rows by creation time.
GetAllMemories ==
    /\ memory_view' = memories
    /\ memory_op' = [op |-> "get_all", arg |-> "", ok |-> TRUE, raised |-> FALSE,
                     before |-> memories]
    /\ UNCHANGED <<memories, memory_ids, MemoryRest>>

\* compact_memories(summary): the transaction commits, or it fails, nothing
\* is committed and the exception leaves the call.
CompactMemories ==
    /\ memory_ids < MaxMemories
    /\ \E text \in MemoryTexts, ok \in BOOLEAN :
          /\ memories' = IF ok THEN Compact(memories, memory_ids + 1, text)
                         ELSE memories
          /\ memory_ids' = IF ok THEN memory_ids + 1 ELSE memory_ids
          /\ memory_op' = [op |-> "compact", arg |-> text, ok |-> ok,
                           raised |-> ~ok, before |-> memories]
    /\ memory_view' = <<>>
    /\ UNCHANGED MemoryRest

MemoryInit ==
    /\ LoopIdle
    /\ StoreIdle
    /\ ThreadIdle
    /\ StreamIdle
    /\ BackIdle

MemoryNext ==
    \/ StoreMemoryCall
    \/ GetAllMemories
    \/ CompactMemories

MemorySpec == MemoryInit /\ [][MemoryNext]_vars

\* =================================================================== claims
\* The text is empty or whitespace only.
IsBlank(s) == \A i \in 1..Len(s) : s[i] = WS

\* C1: every model call consumes one unit of the step budget, and a run in
\* which every response requested tool calls invokes the model exactly
\* max_steps times and then returns the step-budget apology.
C1_StepBudget ==
    /\ chat_calls = step
    /\ step <= max_steps
    /\ (pc = "done" /\ tool_steps = chat_calls) =>
           (chat_calls = max_steps /\ ending = "steps" /\ answer = APOLOGY_STEPS)

C1_Witness ==
    /\ pc = "done" /\ ending = "steps" /\ answer = APOLOGY_STEPS
    /\ max_steps > 1 /\ chat_calls = max_steps /\ tool_steps = max_steps

\* C3: once the inference call has failed the run has returned the
\* model-communication apology; the failing step invoked the model once, and
\* afterwards no model call, no tool call and no change of the answer happens.
C3_InferenceFailure ==
    /\ [](ending = "error" => (pc = "done" /\ answer = APOLOGY_MODEL))
    /\ [][(ending # "error" /\ ending' = "error") =>
             (chat_calls' = chat_calls + 1 /\ exec_log' = exec_log)]_vars
    /\ [][ending = "error" =>
             (chat_calls' = chat_calls /\ exec_log' = exec_log
              /\ answer' = answer /\ messages' = messages)]_vars

C3_Witness ==
    /\ ending = "error" /\ pc = "done" /\ answer = APOLOGY_MODEL
    /\ tool_steps > 0 /\ exec_log # <<>> /\ hpc = "end"

\* C4: a response without tool calls whose content is empty or whitespace
\* only yields the empty-response apology, and no run returns an empty or
\* whitespace-only answer.
C4_NeverEmpty ==
    /\ pc = "done" => ~IsBlank(answer)
    /\ (ending = "final" /\ IsBlank(last_content)) => answer = APOLOGY_EMPTY

C4_Witness ==
    ending = "final" /\ last_content = <<WS>> /\ answer = APOLOGY_EMPTY

\* Indices of the assistant messages that carry tool calls.
AssistantIdxs == {a \in DOMAIN messages : messages[a].tool_calls # <<>>}
\* The assistant message of the k-th tool-call step.
KthAssistant(k) ==
    CHOOSE a \in AssistantIdxs : Cardinality({b \in AssistantIdxs : b < a}) = k - 1
\* The tool-role messages of a message list, in order.
ToolMessages(m) == SelectSeq(m, LAMBDA x : x.role = "tool")
\* Call i of assistant message a repeats a tool name requested before it.
RequestedBefore(a, i) ==
    \E b \in AssistantIdxs : \E j \in DOMAIN messages[b].tool_calls :
        /\ b < a \/ (b = a /\ j < i)
        /\ messages[b].tool_calls[j] = messages[a].tool_calls[i]

\* C2: within one run the executor receives at most one call per tool name,
\* and every request for a name requested before is answered by the
\* synthetic "already called" tool message.
C2_AtMostOncePerTool ==
    /\ \A i, j \in DOMAIN exec_log : i # j => exec_log[i].tool # exec_log[j].tool
    /\ \A a \in AssistantIdxs : \A i \in DOMAIN messages[a].tool_calls :
          (RequestedBefore(a, i) /\ a + i <= Len(messages)) =>
              messages[a + i] = Msg("tool", ALREADY_CALLED)

\* The same statement for Agent.run alone, which holds.
AgentRunAtMostOncePerTool == impl = "Agent" => C2_AtMostOncePerTool

\* Source URLs of one executor return, as the tool delivered them.
ReturnedUrls(r) ==
    IF r.outcome = "return" /\ r.result.result.type = "SearchResult"
    THEN r.result.result.urls ELSE <<>>
RECURSIVE AllReturnedUrls(_)
AllReturnedUrls(rs) ==
    IF rs = <<>> THEN <<>> ELSE ReturnedUrls(Head(rs)) \o AllReturnedUrls(Tail(rs))

RECURSIVE Trimmed(_)
\* The text without its leading and trailing whitespace.
Trimmed(t) == IF t = <<>> THEN <<>>
              ELSE IF Head(t) = WS THEN Trimmed(Tail(t))
              ELSE IF t[Len(t)] = WS THEN Trimmed(SubSeq(t, 1, Len(t) - 1))
              ELSE t

\* C5: the final text of Agent.run gets the first collected source URL
\* appended when a URL was collected and the text contains no URL, and is
\* returned trimmed and otherwise unchanged in every other case.
C5_SourceUrlAppended ==
    (impl = "Agent" /\ ending = "final" /\ ~IsBlank(last_content)) =>
        LET text == Trimmed(last_content)
            urls == AllReturnedUrls(results)
        IN  IF urls # <<>> /\ ~HasUrl(text)
            THEN answer = text \o <<"\n\n", urls[1]>>
            ELSE answer = text

\* The total number of tool calls requested in the transcript.
RECURSIVE RequestedCalls(_)
RequestedCalls(m) ==
    IF m = <<>> THEN 0 ELSE Len(Head(m).tool_calls) + RequestedCalls(Tail(m))

\* What C6 says of the model calls and of the last request.
C6_CallsAndRequest ==
    /\ chat_calls = tool_steps + 1
    /\ Len(requests) = chat_calls
    /\ ToolMessages(requests[chat_calls]) = ToolMessages(messages)
    /\ Len(ToolMessages(messages)) = RequestedCalls(messages)
    /\ tool_steps = 0 => (chat_calls = 1 /\ exec_log = <<>>)

\* C6 as stated: after k tool-call steps and a final response with content,
\* the model was invoked k+1 times, the last request held every tool
\* message, and the run returns that content.
C6_ReturnsThatContent ==
    (impl = "Agent" /\ ending = "final" /\ ~IsBlank(last_content)) =>
        (C6_CallsAndRequest /\ answer = last_content)

\* C6 amended: as above, and the run returns that content trimmed, with the
\* first collected source URL appended when one was collected and the
\* content does not contain "http".
C6_FinalAfterToolSteps ==
    (impl = "Agent" /\ ending = "final" /\ ~IsBlank(last_content)) =>
        /\ C6_CallsAndRequest
        /\ LET text == Trimmed(last_content)
               urls == AllReturnedUrls(results)
           IN  answer = (IF urls # <<>> /\ ~HasHttp(text)
                         THEN text \o <<"\n\n", urls[1]>> ELSE text)

C6_Witness ==
    /\ impl = "Agent" /\ ending = "final" /\ last_content = <<WS, "txt", WS>>
    /\ tool_steps = 1 /\ chat_calls = 2
    /\ answer = <<"txt", "\n\n", "http://c">>

\* The tool messages a call of that name can be answered with.
PossibleAnswers(name) ==
    {ALREADY_CALLED} \cup
    {FormatResult(impl, Execute(ToolCall(name), o)) : o \in ToolBehaviour(name)}

\* C7: each assistant tool-call message is followed by one tool message per
\* call, in request order, the i-th answering the i-th call; the executor
\* receives the calls in that order, each only after the tool messages of
\* all calls before it are in the transcript, and nothing is appended while
\* it works.
C7_TranscriptOrder ==
    /\ \A a \in AssistantIdxs :
         LET calls == messages[a].tool_calls
             later == {b \in AssistantIdxs : b > a}
             open == later = {} /\ pc = "tools"
             n == IF open THEN Len(done_calls) ELSE Len(calls)
         IN  /\ a + n <= Len(messages)
             /\ open => (done_calls \o pending = calls /\ Len(messages) = a + n)
             /\ \A i \in 1..n : /\ messages[a + i].role = "tool"
                                 /\ messages[a + i].content \in PossibleAnswers(calls[i])
             /\ \A b \in later : b > a + n
             /\ \A i \in (a + n + 1)..Len(messages) :
                   messages[i].role = "tool" => \E b \in later : b < i
    /\ \A k \in DOMAIN exec_log :
         LET e == exec_log[k]
             a == KthAssistant(e.step)
         IN  /\ e.tool = messages[a].tool_calls[e.handled + 1]
             /\ e.transcript = a + e.handled
             /\ \A l \in DOMAIN exec_log : l < k =>
                   \/ exec_log[l].step < e.step
                   \/ exec_log[l].step = e.step /\ exec_log[l].handled < e.handled
    /\ inflight # <<>> =>
         /\ exec_log # <<>>
         /\ Len(messages) = exec_log[Len(exec_log)].transcript
         /\ inflight[1].tool = exec_log[Len(exec_log)].tool

C7_Witness ==
    /\ pc = "tools" /\ inflight # <<>> /\ Len(done_calls) = 1
    /\ inflight[1].tool = "fetch" /\ done_calls = <<"search">>
    /\ messages[Len(messages)].role = "tool"

\* C8: the first request is one system message, one message per history
\* Turn with its role and content, and the user prompt last.
C8_FirstRequest ==
    requests # <<>> =>
        LET r == requests[1] IN
        /\ Len(r) = Len(history) + 2
        /\ r[1].role = "system"
        /\ \A i \in 2..Len(r) : r[i].role # "system"
        /\ \A i \in 1..Len(history) :
              Len(r) > i => r[i + 1] = Msg(RoleOf(history[i].direction), history[i].content)
        /\ r[Len(r)] = Msg("user", PROMPT)

\* The same statement for Agent._build_messages alone, which holds.
AgentFirstRequest == impl = "Agent" => C8_FirstRequest

\* The text is a final answer of the model: a final content trimmed,
\* possibly with a source URL appended.
IsModelAnswer(t) ==
    \E c \in FinalContents :
        \/ t = Trimmed(c)
        \/ \E u \in UrlTokens : t = Trimmed(c) \o <<"\n\n", u>>

\* C9: every text sent to the user is a final answer of the model (or a line
\* of its streamed answer) or one of the fixed apologies, and holds the text
\* of no internal exception.
C9_NoInternalErrorSent ==
    \A i \in DOMAIN sent :
        /\ sent[i] \in Apologies \/ IsModelAnswer(sent[i]) \/ sent[i] \in StreamLines
        /\ \A j \in DOMAIN sent[i] : sent[i][j] \notin ExceptionTexts

C9_Witness ==
    /\ handler = "penny" /\ hpc = "end" /\ ending = "error"
    /\ EXC_INFERENCE \in logged /\ sent = <<APOLOGY_MODEL>>

\* C10: the executor answers an unknown name with the error "unknown tool"
\* and a raising tool with the exception's message as error, and in both
\* cases the tool message appended for the call is the error with the
\* error prefix.
C10_ErrorsFedBack ==
    \A k \in DOMAIN results :
        LET r == results[k] IN
        /\ r.outcome = "absent" => r.result.error = SomeStr(UNKNOWN_TOOL)
        /\ r.outcome = "raise" => r.result.error = SomeStr(r.msg)
        /\ r.outcome \in {"absent", "raise"} =>
              /\ r.at <= Len(messages)
              /\ messages[r.at] = Msg("tool", <<ErrorPrefix, r.result.error.msg>>)
              /\ ending # "error" => pc \in {"tools", "chat", "done"}

\* The same statement for exceptions that carry a message, which holds.
NonEmptyErrorsFedBack ==
    \A k \in DOMAIN results :
        LET r == results[k] IN
        (r.outcome \in {"absent", "raise"} /\ r.result.error.msg # "") =>
            messages[r.at] = Msg("tool", <<ErrorPrefix, r.result.error.msg>>)

\* C11: every ToolResult the executor returned during the run has exactly one
\* of result and error set (not None), also for a tool that succeeded with a
\* null result.
C11_ExactlyOneOfResultAndError ==
    \A k \in DOMAIN results :
        LET tr == results[k].result IN
        (tr.result.type # "None") # tr.error.set

\* The same statement for the results of tools that did not return None,
\* which holds.
NonNullResultsExactlyOne ==
    \A k \in DOMAIN results :
        LET r == results[k] IN
        ~(r.outcome = "return" /\ r.result.result.type = "None") =>
            ((r.result.result.type # "None") # r.result.error.set)

\* The rows the last get_conversation_history fetched.
Fetched == FetchRows(table, hist_sender, PENNY, hist_limit)

\* Rows i and i+1 of f are of one direction, both carry a chunk index, and
\* the later index is the earlier one plus 1.
ChunkAdjacent(f, i) ==
    /\ f[i].direction = f[i + 1].direction
    /\ f[i].chunk_index # NoIndex /\ f[i + 1].chunk_index # NoIndex
    /\ f[i + 1].chunk_index = f[i].chunk_index + 1

\* The rows of f that are not folded into the Turn of the row before them.
TurnStarts(f) == {i \in DOMAIN f : i = 1 \/ ~ChunkAdjacent(f, i - 1)}
\* The j-th of them, and the last row of the Turn that starts at row s.
NthStart(f, j) ==
    CHOOSE s \in TurnStarts(f) : Cardinality({x \in TurnStarts(f) : x < s}) = j - 1
TurnEnd(f, s) ==
    IF \E x \in TurnStarts(f) : x > s
    THEN (CHOOSE x \in TurnStarts(f) :
              x > s /\ \A y \in TurnStarts(f) : y > s => x <= y) - 1
    ELSE Len(f)
\* The contents of rows a..b of f joined with single newlines.
RECURSIVE JoinedContent(_, _, _)
JoinedContent(f, a, b) ==
    IF a = b THEN f[a].content
    ELSE f[a].content \o <<"\n">> \o JoinedContent(f, a + 1, b)

\* C12: get_conversation_history folds two adjacent fetched rows into one
\* Turn exactly when they are of one direction, both carry a chunk index and
\* the later index is the earlier plus 1: the list `turns` has one Turn per
\* maximal such run, in order, its content the run's contents joined with
\* single newlines, so that every fetched row is part of exactly one Turn.
C12_FoldsChunkRuns ==
    hist_fresh =>
        /\ Len(turns) = Cardinality(TurnStarts(Fetched))
        /\ \A j \in DOMAIN turns :
              LET s == NthStart(Fetched, j) IN
              /\ turns[j].direction = Fetched[s].direction
              /\ turns[j].content = JoinedContent(Fetched, s, TurnEnd(Fetched, s))

C12_Witness ==
    /\ hist_fresh /\ hist_sender = "alice" /\ hist_limit = 1
    /\ table = ChunkRun(<<>>, "alice", 3)
    /\ Len(returned) = 1
    /\ returned[1].content = <<"1", "\n", "2", "\n", "3">>

\* All rows of the table between the two parties of the last call.
Conversation == SelectSeq(table, LAMBDA r : Between(r, hist_sender, PENNY))

\* Direction and content of the Turns the rows f make up.
TurnsOf(f) ==
    [j \in 1..Cardinality(TurnStarts(f)) |->
        LET s == NthStart(f, j) IN
        [direction |-> f[s].direction,
         content |-> JoinedContent(f, s, TurnEnd(f, s))]]

\* Direction and content of the Turns returned.
ReturnedTurns ==
    [j \in DOMAIN returned |->
        [direction |-> returned[j].direction, content |-> returned[j].content]]

\* C13: for every table and every limit >= 0, get_conversation_history
\* returns at most limit Turns, oldest first, and they are the most recent
\* Turns of the conversation between the two parties, with no row of other
\* parties in them.
C13_MostRecentTurns ==
    hist_fresh =>
        /\ Len(returned) <= hist_limit
        /\ ReturnedTurns = LastN(TurnsOf(Conversation), hist_limit)
        /\ \A j \in DOMAIN returned : Between(returned[j], hist_sender, PENNY)

\* The same statement for conversations that fit into the fetch window,
\* which holds.
MostRecentTurnsWithinWindow ==
    (hist_fresh /\ Len(Conversation) <= hist_limit * MESSAGE_FETCH_MULTIPLIER)
        => C13_MostRecentTurns

\* C14: whenever the conversation between the two parties has at least
\* limit Turns, get_conversation_history returns exactly limit Turns.
C14_WindowDoesNotStarve ==
    (hist_fresh /\ Len(TurnsOf(Conversation)) >= hist_limit) =>
        Len(returned) = hist_limit

\* The same statement for conversations of at most limit * multiplier rows,
\* which holds.
NoStarvationWithinWindow ==
    (hist_fresh /\ Len(Conversation) <= hist_limit * MESSAGE_FETCH_MULTIPLIER)
        => C14_WindowDoesNotStarve

\* C19: the message table is append-only: no step (a write, a failed write,
\* a read with its chunk stitching) deletes a row or changes a field of a
\* row that is in the table.
C19_AppendOnly ==
    [][/\ Len(table') >= Len(table)
       /\ \A i \in DOMAIN table : table'[i] = table[i]]_vars

C19_Witness ==
    /\ hist_fresh /\ Len(table) = 2 /\ Len(turns) = 1
    /\ table[1].chunk_index = 0 /\ table[2].chunk_index = 1
    /\ turns[1].content = <<"1", "\n", "2">>
    /\ table[1].content = <<"1">> /\ table[2].content = <<"2">>

\* C15: on an acyclic parent graph the thread walk returns at most limit
\* records, none twice; it begins at the given record and follows parent_id
\* until a null parent_id, a missing record or the limit; the result is
\* oldest first, each record the parent of the next.
C15_AncestorChain ==
    chain_done =>
        /\ Len(chain) <= chain_limit
        /\ \A i, j \in DOMAIN chain : i # j => chain[i] # chain[j]
        /\ \A i \in DOMAIN chain : chain[i] \in log
        /\ \A i \in 1..(Len(chain) - 1) : chain[i + 1].parent_id = chain[i].id
        /\ chain # <<>> => chain[Len(chain)].id = chain_id
        /\ chain = <<>> => (chain_limit = 0 \/ \A r \in log : r.id # chain_id)
        /\ (chain # <<>> /\ Len(chain) < chain_limit) =>
              \/ chain[1].parent_id = NoId
              \/ \A r \in log : r.id # chain[1].parent_id

C15_Witness ==
    /\ chain_done /\ chain_limit = 2 /\ Len(chain) = 2
    /\ Cardinality(log) = 3
    /\ chain[1].id = 3 /\ chain[2].id = 1 /\ chain[1].parent_id = 2

\* C16: every record of the log whose parent_id is set points to a record
\* of the log with a strictly smaller id.
C16_ParentsExistAndPrecede ==
    \A r \in log :
        r.parent_id # NoId =>
            \E p \in log : p.id = r.parent_id /\ p.id < r.id

C16_Witness ==
    \E a, b, c \in log :
        /\ a.direction = "outgoing" /\ a.parent_id # NoId
        /\ b.direction = "incoming" /\ b.parent_id = a.id
        /\ c.direction = "outgoing" /\ c.parent_id = b.id /\ c.content = FOLLOW_UP

\* C17: the reply record of an inbound message has as parent the incoming
\* record of that same message, and the incoming record has as parent the
\* most recent earlier outgoing record with the quoted text (none when
\* nothing was quoted or no such record was there), however the writes of
\* concurrently running handlers interleave.
C17_RepliesLinkedToOwnMessage ==
    /\ \A r \in log :
          (r.direction = "outgoing" /\ r.msg > 0) =>
              \E i \in log : /\ i.direction = "incoming" /\ i.msg = r.msg
                             /\ r.parent_id = i.id
    /\ \A i \in log :
          i.direction = "incoming" =>
              LET m == {o \in log : /\ o.direction = "outgoing"
                                    /\ o.content = i.quoted /\ o.id < i.id}
              IN  IF i.quoted = <<>> \/ m = {} THEN i.parent_id = NoId
                  ELSE /\ i.parent_id \in {o.id : o \in m}
                       /\ \A o \in m : o.id <= i.parent_id

C17_Witness ==
    \E i1, i2, r1, r2 \in log :
        /\ i1.direction = "incoming" /\ i1.msg = 1 /\ i2.direction = "incoming"
        /\ i2.msg = 2 /\ i1.id < i2.id
        /\ r2.msg = 2 /\ r2.parent_id = i2.id /\ r2.id = i2.id + 1
        /\ r1.msg = 1 /\ r1.parent_id = i1.id /\ r1.id = r2.id + 1

\* C18: every row with a chunk_index is part of a run of consecutive rows
\* of its direction whose indices start at 0 and increase by exactly 1: its
\* index is 0, or the row before it is of the same direction and carries
\* the index before.
C18_ChunkRunsWellFormed ==
    \A i \in DOMAIN table :
        table[i].chunk_index \notin {NoIndex, 0} =>
            /\ i > 1
            /\ table[i - 1].direction = table[i].direction
            /\ table[i - 1].chunk_index = table[i].chunk_index - 1

\* The same statement while no write has failed, which is violated as well:
\* the interleaving of two streaming handlers alone breaks a run.
ChunkRunsWellFormedWithoutFailures == db_errors = {} => C18_ChunkRunsWellFormed

\* The same statement for a single handled message whose writes all
\* succeed, which holds.
SingleStreamWellFormed ==
    (arrived <= 1 /\ db_errors = {}) => C18_ChunkRunsWellFormed

Untouched(p) == ~p.latched /\ ~p.complete /\ p.target = NoTarget

\* C21: IdleSchedule(threshold).should_run(idle) is false for every idle
\* below the threshold in a fresh or reset policy and true at the threshold;
\* after mark_complete() and reset() it is not true again before the idle
\* time has grown from zero up to the threshold.
C21_IdleScheduleThreshold ==
    LET c == last_call["summarize"] IN
    c.made =>
        /\ (Untouched(c.before) /\ c.idle < config.threshold) => ~c.result
        /\ (Untouched(c.before) /\ c.idle = config.threshold) => c.result
        /\ c.result => (c.idle >= config.threshold /\ idle_seconds >= c.idle)

\* The policy fired and was marked complete in one idle period, was reset by
\* the second message and fires again at the threshold.
C21_Witness ==
    /\ received = 2
    /\ summary # {}
    /\ config.threshold = 2
    /\ sched_pc = "executing" /\ current = "summarize"
    /\ last_call["summarize"].result
    /\ last_call["summarize"].idle = config.threshold
    /\ Untouched(last_call["summarize"].before)

\* ------------------------------------------------------------------- C22
\* C22: between two consecutive reset() calls the agent of an IdleSchedule
\* is executed at most once, however many ticks see an idle time at or above
\* the threshold.
C22_IdleScheduleFiresOnce == fires["summarize"] <= 1

\* The agent was executed in this idle period and a later tick, with the
\* idle time above the threshold, did not execute it again.
C22_Witness ==
    /\ fires["summarize"] = 1
    /\ sched_pc = "sleep"
    /\ last_call["summarize"].made
    /\ last_call["summarize"].idle > config.threshold
    /\ ~last_call["summarize"].result

\* ------------------------------------------------------------------- C23
\* The last should_run call of the TwoPhaseSchedule returned true at an idle
\* time within [min_idle, max_idle].
FiredWithinMax ==
    /\ last_call["followup"].made
    /\ last_call["followup"].result
    /\ last_call["followup"].idle >= config.min_idle
    /\ last_call["followup"].idle <= config.max_idle

C24_TargetDrawnOnce ==
    LET c == last_call["followup"]
        t == policy["followup"].target
    IN  /\ draws["followup"] <= 1
        /\ t # NoTarget => (t >= config.min_idle /\ t <= config.max_idle)
        /\ c.made =>
              /\ c.idle < config.min_idle => c.after.target = NoTarget
              /\ c.idle >= config.min_idle => c.after.target # NoTarget
              /\ c.before.target # NoTarget => c.after.target = c.before.target
              /\ c.result => (c.after.target # NoTarget /\ c.idle >= c.after.target)
              /\ c.after.target = t
        /\ (~c.made) => t = NoTarget

\* A should_run call later in the idle period found the target drawn before
\* and left it; the policy has not fired yet.
C24_Witness ==
    /\ last_call["followup"].made
    /\ last_call["followup"].before.target # NoTarget
    /\ ~last_call["followup"].result
    /\ draws["followup"] = 1
    /\ received > 0

\* ------------------------------------------------------------------- C25
\* C25: on every tick and for every registered pair, agent.execute is
\* invoked only if policy.should_run returned true on that tick, and
\* policy.mark_complete is called after that execute has returned, with true
\* or with false, and never without an execute before it in the same tick.
C25_TickCallOrder ==
    \A k \in 1..Len(tick_calls) :
        LET c == tick_calls[k] IN
        /\ c.op = "execute" =>
              /\ k > 1
              /\ tick_calls[k - 1] = [op |-> "should_run", pair |-> c.pair,
                                      result |-> TRUE]
        /\ c.op = "returned" =>
              /\ k > 1 /\ k < Len(tick_calls)
              /\ tick_calls[k - 1].op = "execute"
              /\ tick_calls[k - 1].pair = c.pair
              /\ tick_calls[k + 1].op = "mark_complete"
              /\ tick_calls[k + 1].pair = c.pair
        /\ c.op = "mark_complete" =>
              /\ k > 2
              /\ tick_calls[k - 1].op = "returned"
              /\ tick_calls[k - 1].pair = c.pair
              /\ tick_calls[k - 2].op = "execute"
              /\ tick_calls[k - 2].pair = c.pair

\* A tick in which one agent returned false and the other true, each
\* followed by mark_complete.
C25_Witness ==
    /\ sched_pc = "sleep"
    /\ \E j, k \in 1..Len(tick_calls) :
          /\ tick_calls[j].op = "returned" /\ ~tick_calls[j].result
          /\ tick_calls[k].op = "returned" /\ tick_calls[k].result
          /\ tick_calls[j + 1].op = "mark_complete"
          /\ tick_calls[k + 1].op = "mark_complete"

\* ------------------------------------------------------------------- C26
\* The idle time at which the policy of a pair may fire at the earliest.
EarliestTrigger(p) ==
    IF p = "summarize" THEN config.threshold ELSE config.min_idle

\* C26: every inbound message resets every policy and restarts the idle time
\* from zero, clearing latch and target, so that no policy fires on what had
\* accumulated before the message; also when the message arrives while a
\* background agent is executing.
C26_MessageResetsPolicies ==
    /\ [][received' # received =>
             /\ idle_seconds' = 0
             /\ \A p \in PairNames : Untouched(policy'[p])]_vars
    /\ [](\A p \in PairNames :
             /\ policy[p].latched => idle_seconds >= EarliestTrigger(p)
             /\ policy[p].target # NoTarget => idle_seconds >= EarliestTrigger(p)
             /\ (last_call[p].made /\ last_call[p].result) =>
                   /\ last_call[p].idle >= EarliestTrigger(p)
                   /\ last_call[p].idle <= idle_seconds)

\* A message has arrived while an agent was executing: the idle time is back
\* at zero and the policy that had fired holds nothing.
C26_Witness ==
    /\ sched_pc = "executing"
    /\ received > 0
    /\ idle_seconds = 0
    /\ \A p \in PairNames : Untouched(policy[p])

\* ------------------------------------------------------------------- C27
\* The outgoing records that answer an incoming record and have no summary.
AnsweredUnsummarized ==
    {r \in log : /\ r.direction = "outgoing"
                 /\ \E x \in log : x.id = r.parent_id /\ x.direction = "incoming"
                 /\ ~\E s \in summary : s.id = r.id}

\* The record has a summary that is not empty.
HasSummary(i) == \E s \in summary : s.id = i /\ s.text # <<>>

\* C27: once an inbound message has been answered and the conversation stays
\* idle for the summarize threshold, the scheduler eventually runs the
\* summarize agent and the outgoing record gets a non-empty summary; before
\* the threshold is reached the summary stays unset.
C27_SummaryAfterIdle ==
    /\ \A i \in 1..(2 * MaxInbound) :
          ((\E r \in AnsweredUnsummarized : r.id = i) /\ received = MaxInbound)
              ~> HasSummary(i)
    /\ [][\A i \in 1..(2 * MaxInbound) :
             ((\E r \in AnsweredUnsummarized : r.id = i) /\ HasSummary(i)')
                 => (sched_pc = "executing" /\ current = "summarize")]_vars

\* ------------------------------------------------------------------- C28
\* run has ended, by returning or by an exception.
RunEnded == run_pc \in {"done", "failed"}

\* C28: on every exit path of the top-level run (the listener returns after
\* the flag was cleared, the listener raises, the task is cancelled) the
\* teardown runs to completion: the channel and the inference client are
\* both closed, also when closing the first of them fails.
C28_TeardownCompletes ==
    RunEnded => ("channel" \in close_called /\ "client" \in close_called)

\* On every exit path the teardown is entered, and it closes the client
\* whenever closing the channel has not failed.
TeardownCompletesAfterChannelClosed ==
    RunEnded => (/\ "channel" \in close_called
                 /\ ("channel" \in closed => "client" \in close_called))

\* ------------------------------------------------------------------- C29
\* C29: while the running flag is true the listener never stops: after any
\* transport failure or unexpected exception in the connection it waits the
\* backoff and attempts to connect again, for any number of consecutive
\* failures.
C29_ListenerKeepsReconnecting ==
    /\ []((running /\ ~cancelled /\ lpc \notin {"start", "no_url"}) =>
             (lpc \notin {"stopped", "raised"} /\ run_pc = "listening"))
    /\ [](lpc = "connecting" => ~need_backoff)
    /\ (lpc = "caught") ~> (lpc = "connecting" \/ ~running \/ cancelled)

\* The connection is attempted again after the most consecutive failures
\* that are told apart, the backoff slept.
C29_Witness ==
    /\ lpc = "connecting"
    /\ failures = MaxFailures
    /\ running
    /\ ~need_backoff

\* ------------------------------------------------------------------- C30
\* C30: once the running flag is cleared the listener eventually terminates:
\* the receive loop reads the flag after at most one more bounded receive
\* and exits, and no connection attempt and no message dispatch is started
\* after the flag has been read as false.
C30_ListenerStopsAfterFlag ==
    /\ (~running) ~> (lpc \in {"stopped", "raised", "no_url"})
    /\ [](~late_start)
    /\ [](recvs_after <= 1)
    /\ [](observed => ~running)

\* The flag was cleared during a receive; the message that receive returned
\* was dispatched, the loop then read the flag and the listener returned.
C30_Witness ==
    /\ lpc = "stopped"
    /\ recvs_after = 1
    /\ dispatched > 0
    /\ observed
    /\ ~cancelled

\* ------------------------------------------------------------------- C31
\* Threads handed to summarize: a record alone, and a reply with its parent.
ShortThread == {LogRecord(1, "incoming", "alice", <<"q1">>, NoId, 0, <<>>)}
ReplyThread == ShortThread \cup {LogRecord(2, "outgoing", PENNY, <<"a1">>, 1, 0, <<>>)}

\* The run of summarize (Agent.run without history) has returned.
SummarizeRunEnded == pc = "done" /\ impl = "Agent" /\ history = <<>>
\* That run failed: inference error, empty response or step budget exceeded.
RunFailed == ending \in {"error", "steps"} \/ (ending = "final" /\ IsBlank(last_content))

\* C31: summarize returns the empty string for a thread of fewer than two
\* records; for a longer thread it returns None when the model run failed
\* and otherwise the trimmed summary text, so no apology is ever returned as
\* a summary.
C31_SummarizeResult ==
    SummarizeRunEnded =>
        /\ Summarize(ShortThread, 1, answer) = [set |-> TRUE, text |-> <<>>]
        /\ RunFailed => ~Summarize(ReplyThread, 2, answer).set
        /\ ~RunFailed =>
              /\ Summarize(ReplyThread, 2, answer).set
              /\ Summarize(ReplyThread, 2, answer).text = Trimmed(answer)
        /\ Summarize(ReplyThread, 2, answer).text \notin Apologies

\* What does hold: summarize returns the trimmed answer of the run whenever
\* the thread has two records, the apology of a failed run included.
SummarizeReturnsRunAnswer ==
    SummarizeRunEnded =>
        /\ Summarize(ShortThread, 1, answer) = [set |-> TRUE, text |-> <<>>]
        /\ Summarize(ReplyThread, 2, answer) = [set |-> TRUE, text |-> Trimmed(answer)]
        /\ (RunFailed <=> Summarize(ReplyThread, 2, answer).text \in Apologies)

\* ------------------------------------------------------------------- C32
\* The returned Turn was stitched from two or more chunks.
IsStitched(t) == \E i \in 1..Len(t.content) : t.content[i] = "\n"

\* C32: every Turn returned by get_conversation_history, a stitched one
\* included, becomes exactly one message with the Turn's full content in the
\* message list of AgenticController._build_messages and one line in the
\* prompt of PromptBuilder.build_conversation_history; none is dropped.
C32_EveryTurnInMessages ==
    hist_fresh =>
        /\ ControllerHistory(returned) =
              [k \in 1..Len(returned) |->
                  Msg(RoleOf(returned[k].direction), returned[k].content)]
        /\ PromptHistory(returned) =
              [k \in 1..Len(returned) |->
                  Part(IF returned[k].direction = "incoming" THEN "User" ELSE "Penny",
                       returned[k].content)]

\* What does hold: the Turns that are kept appear once each, in order and
\* with their full content, and the Turns dropped are those whose
\* chunk_index is 1 or more, which every stitched Turn is.
TurnsWithFirstChunkIndexKept ==
    hist_fresh =>
        /\ ControllerHistory(returned) =
              [k \in 1..Len(SelectSeq(returned, LAMBDA t : t.chunk_index \in {NoIndex, 0})) |->
                  Msg(RoleOf(SelectSeq(returned, LAMBDA t : t.chunk_index \in {NoIndex, 0})[k].direction),
                      SelectSeq(returned, LAMBDA t : t.chunk_index \in {NoIndex, 0})[k].content)]
        /\ \A k \in 1..Len(returned) : IsStitched(returned[k]) => returned[k].chunk_index >= 1

\* ------------------------------------------------------------------- C33
\* C33: every Turn returned by get_conversation_history is the concatenation
\* of a complete maximal chunk run of the stored conversation; none holds
\* only the later chunks of a run whose earlier chunks lay outside the
\* limit * multiplier fetch window.
C33_TurnsAreCompleteRuns ==
    hist_fresh =>
        \A j \in DOMAIN returned :
            \E k \in DOMAIN TurnsOf(Conversation) :
                ReturnedTurns[j] = TurnsOf(Conversation)[k]

\* What does hold: every returned Turn but the first is a complete run, and
\* the first is one too whenever the window holds the whole conversation.
OnlyFirstTurnMayBeCut ==
    hist_fresh =>
        /\ \A j \in DOMAIN returned :
              j > 1 => \E k \in DOMAIN TurnsOf(Conversation) :
                           ReturnedTurns[j] = TurnsOf(Conversation)[k]
        /\ Len(Conversation) <= hist_limit * MESSAGE_FETCH_MULTIPLIER
              => C33_TurnsAreCompleteRuns

\* ------------------------------------------------------------------- C34
\* C34: a handler that has turned the typing indicator on turns it off on
\* every path by which it ends (reply sent, controller or streaming failure,
\* store or send failure): once the handler has finished, the last typing
\* event it emitted is "off", and it emitted no "on" without having reached
\* its guarded block.
C34_TypingSwitchedOff ==
    /\ (hpc = "end" /\ typing # <<>>) => typing[Len(typing)] = FALSE
    /\ (hpc = "end" /\ typing = <<>>) => (sent = <<>> /\ pc = "idle")
    /\ hpc \in {"run", "stream"} => (typing # <<>> /\ typing[1] = TRUE)

C34_Witness ==
    \/ /\ handler = "penny" /\ hpc = "end" /\ EXC_SEND \in logged
       /\ typing = <<TRUE, FALSE>> /\ sent = <<>>
    \/ /\ handler = "discord" /\ hpc = "end" /\ EXC_STREAM \in logged
       /\ chunk_count = 1 /\ typing = <<TRUE, FALSE, TRUE, FALSE>>

\* ------------------------------------------------------------------- C35
\* C35: handle_message never raises: an exception of any of its calls
\* (extract, store write, controller run, send, typing on or off) is caught
\* within the handler task, a step of one handler leaves every other handler
\* as it was, the listener can dispatch the next envelope whatever became of
\* the earlier ones, and a handler whose extract_message returned nothing
\* has written no record, sent no typing event and sent no message.
C35_HandlerNeverRaises ==
    /\ [](\A t \in Tasks :
            /\ handling[t].pc # "raised"
            /\ handling[t].nothing =>
                  (handling[t].writes = 0 /\ handling[t].typed = <<>>
                   /\ handling[t].sends = 0 /\ handling[t].pc = "done"))
    /\ [][\A t, u \in Tasks :
             (t # u /\ handling'[t] # handling[t]) => handling'[u] = handling[u]]_vars
    /\ []((envelopes < MaxInbound /\ \E t \in Tasks : handling[t].pc \notin
                {"start", "typing_on", "run", "reply", "typing_off"})
              => ENABLED (\E t \in Tasks : Dispatch(t)))

C35_Witness ==
    /\ handling["t1"].pc = "done" /\ handling["t1"].caught = "typing"
    /\ handling["t1"].failed = "send" /\ handling["t1"].writes = 2
    /\ handling["t2"].pc = "done" /\ handling["t2"].sends = 1
    /\ handling["t2"].typed = <<TRUE, FALSE>>

\* ------------------------------------------------------------------- C36
\* The tool names handed to the executor so far in this run.
DispatchedNames == {exec_log[i].tool : i \in DOMAIN exec_log}
\* The executor's returns of this run that carry an error.
FailedNames == {exec_log[i].tool : i \in {k \in DOMAIN results : results[k].result.error.set}}

\* C36: at every point of an Agent.run the set of already-called tool names
\* is exactly the set of names handed to the executor so far in this run,
\* whether the call succeeded or returned an error; the set is empty when a
\* run starts, also on an Agent that has run before; and no name, a failed
\* one included, is handed to the executor twice within a run.
C36_CalledToolsAreDispatched ==
    /\ [](pc \in {"chat", "tools", "done"} => called_tools = DispatchedNames)
    /\ [](\A i, j \in DOMAIN exec_log : i # j => exec_log[i].tool # exec_log[j].tool)
    /\ [][(pc = "idle" /\ pc' # "idle") =>
             (called_tools' = {} /\ exec_log' = <<>>)]_vars

C36_Witness ==
    /\ earlier_runs = <<{"search"}>>
    /\ pc = "done" /\ called_tools = {"search"}
    /\ "search" \in FailedNames
    /\ \E i \in DOMAIN messages : messages[i] = Msg("tool", ALREADY_CALLED)

\* ------------------------------------------------------------------- C37
\* The row with the id.
TaskWith(rows, id) == rows[CHOOSE k \in DOMAIN rows : rows[k].id = id]
\* The last call named an id that no row had.
NamedMissingTask ==
    /\ task_op.op \in {"update", "complete"}
    /\ ~\E k \in DOMAIN task_op.before : task_op.before[k].id = task_op.id

\* The parts of the task lifecycle that concern one call: a created task is
\* pending and nothing of it is set; get_pending_tasks returns exactly the
\* pending rows in creation order; complete_task on an existing task leaves
\* it not pending with the given result; a call that names a missing id
\* leaves the table as it was.
TaskCallsBehave ==
    /\ task_op.op = "create" =>
          /\ Len(task_rows) = Len(task_op.before) + 1
          /\ \A k \in DOMAIN task_op.before : task_rows[k] = task_op.before[k]
          /\ task_rows[Len(task_rows)].status = "pending"
          /\ ~task_rows[Len(task_rows)].result.set
          /\ ~task_rows[Len(task_rows)].completed_at
    /\ task_op.op = "get_pending" =>
          /\ \A k \in DOMAIN pending_view : pending_view[k].status = "pending"
          /\ \A k \in DOMAIN task_rows :
                task_rows[k].status = "pending" =>
                    \E j \in DOMAIN pending_view : pending_view[j] = task_rows[k]
          /\ \A i, j \in DOMAIN pending_view : i < j => pending_view[i].id < pending_view[j].id
    /\ (task_op.op = "complete" /\ ~NamedMissingTask) =>
          /\ TaskWith(task_rows, task_op.id).status # "pending"
          /\ TaskWith(task_rows, task_op.id).result = SomeStr(task_op.arg)
    /\ NamedMissingTask => task_rows = task_op.before

\* C37: a created task is pending; get_pending_tasks returns exactly the
\* pending tasks in creation order; complete_task(id, r) on an existing task
\* leaves it not pending with result r; after any sequence of create_task,
\* update_task_status and complete_task a task has completed_at and result
\* set if and only if its status is completed; a call naming a missing id
\* changes nothing.
C37_TaskLifecycle ==
    /\ TaskCallsBehave
    /\ \A k \in DOMAIN task_rows :
          (task_rows[k].completed_at /\ task_rows[k].result.set)
              <=> task_rows[k].status = "completed"

\* What does hold: the calls behave as stated, completed_at and result are
\* set together, and a task that update_task_status has not touched has them
\* set exactly when it is completed.
TaskLifecycleWithoutStatusUpdates ==
    /\ TaskCallsBehave
    /\ \A k \in DOMAIN task_rows : task_rows[k].completed_at <=> task_rows[k].result.set
    /\ \A k \in DOMAIN task_rows :
          (task_op.op = "complete" /\ task_op.id = task_rows[k].id)
              => (task_rows[k].status = "completed" /\ task_rows[k].completed_at)

\* ------------------------------------------------------------------- C38
\* The agents on the list.
OnList(reg) == {reg[k] : k \in DOMAIN reg}

\* C38: the registry holds exactly the agents constructed and not yet
\* closed, each once: construction appends the new agent; close() closes the
\* agent's inference client and takes the agent off the list; a second
\* close() of an agent leaves the list as it was; after close_all() the list
\* is empty and every agent that was on it has been closed.
C38_RegistryHoldsLiveAgents ==
    /\ \A i, j \in DOMAIN instances : i # j => instances[i] # instances[j]
    /\ OnList(instances) = {a \in 1..constructed : client_closes[a] = 0}
    /\ registry_op.op = "construct" =>
          (registry_op.agent \notin OnList(registry_op.before)
           /\ instances = registry_op.before \o <<registry_op.agent>>)
    /\ registry_op.op = "close" =>
          /\ client_closes[registry_op.agent] >= 1
          /\ registry_op.agent \notin OnList(instances)
          /\ OnList(instances) = OnList(registry_op.before) \ {registry_op.agent}
          /\ registry_op.agent \notin OnList(registry_op.before)
                => instances = registry_op.before
    /\ registry_op.op = "close_all" =>
          /\ instances = <<>>
          /\ \A a \in OnList(registry_op.before) : client_closes[a] >= 1

C38_Witness ==
    /\ registry_op.op = "close_all" /\ Len(registry_op.before) >= 2
    /\ instances = <<>> /\ constructed = MaxAgents
    /\ \E a \in 1..constructed : client_closes[a] = 2

\* ------------------------------------------------------------------- C39
\* C39: within an open connection a receive timeout or a frame that is not
\* valid JSON neither closes the connection nor starts the reconnect backoff
\* nor creates a handler task, and the listener goes on receiving on the
\* same connection; every frame that parses is handed to exactly one new
\* handler task at once, the connection kept.
C39_ReceiveLoopGoesOn ==
    /\ last_frame.kind \in {"timeout", "bad_json"} =>
          (last_frame.kept /\ ~last_frame.backoff /\ last_frame.tasks = 0)
    /\ last_frame.kind \in {"message", "not_object"} =>
          (last_frame.kept /\ ~last_frame.backoff /\ last_frame.tasks = 1)

\* What does hold: the same for the frames that parse to a JSON object; a
\* frame of another JSON value leaves the connection like a transport failure.
ReceiveLoopGoesOnForObjects ==
    /\ last_frame.kind \in {"timeout", "bad_json"} =>
          (last_frame.kept /\ ~last_frame.backoff /\ last_frame.tasks = 0)
    /\ last_frame.kind = "message" =>
          (last_frame.kept /\ ~last_frame.backoff /\ last_frame.tasks = 1)
    /\ last_frame.kind \in {"not_object", "closed"} =>
          (~last_frame.kept /\ last_frame.backoff /\ last_frame.tasks = 0)

\* ------------------------------------------------------------------- C40
\* The contents of the rows, in order.
ContentsOf(mem) == [k \in DOMAIN mem |-> mem[k].content]

\* C40: after compact_memories(summary) the table holds exactly one memory,
\* whose content is summary, whatever it held before, and get_all_memories
\* returns just that; compacting to the same summary again leaves the
\* contents as they are; a compaction that fails changes nothing;
\* store_memory never raises, adds one row with the content when the write
\* succeeds and leaves the table unchanged when it fails.
C40_CompactReplacesAll ==
    /\ (memory_op.op = "compact" /\ memory_op.ok) =>
          /\ ContentsOf(memories) = <<memory_op.arg>>
          /\ ContentsOf(memory_op.before) = <<memory_op.arg>>
                => ContentsOf(memories) = ContentsOf(memory_op.before)
    /\ (memory_op.op = "compact" /\ ~memory_op.ok) => memories = memory_op.before
    /\ (memory_op.op = "get_all" /\ memory_op.before = memories) => memory_view = memories
    /\ memory_op.op = "store" =>
          /\ ~memory_op.raised
          /\ memory_op.ok =>
                ContentsOf(memories) = ContentsOf(memory_op.before) \o <<memory_op.arg>>
          /\ ~memory_op.ok => memories = memory_op.before
    /\ \A i, j \in DOMAIN memories : i < j => memories[i].id < memories[j].id

C40_Witness ==
    /\ memory_op.op = "compact" /\ memory_op.ok
    /\ Len(memory_op.before) = 2
    /\ memory_op.before[1].content # memory_op.before[2].content
    /\ ContentsOf(memories) = <<"summary">>

====
